---- MODULE Spec2Model ----
(***************************************************************************)
(* A model of infra-alerts' run orchestration and alert life cycle         *)
(* (src/src/infra_alerts/run_monitor.py, monitors/status.py, state.py).    *)
(*                                                                         *)
(* Time is in whole seconds since an arbitrary epoch; utc_now() of a run   *)
(* is the variable now.  A timedelta of m minutes is Minutes(m) seconds.   *)
(* An optional value (Python's None or a value) is the empty sequence or a *)
(* one-element sequence.                                                   *)
(*                                                                         *)
(* Several specifications share the variables, each over its own group:    *)
(*   Spec         one run() after another: load, generate, the retry loop  *)
(*                over the pending queue, the loop over the new alerts,    *)
(*                the two saves;                                           *)
(*   SpecStatus   the body of run()'s status loop for one status target,   *)
(*                check after check;                                       *)
(*   SpecAlertId  build_alert_id applied to pairs of inputs;               *)
(*   SpecRun      watchdog, digest logs, digest and first-run override;    *)
(*   SpecLoad     load_state and the start of run() over state files;      *)
(*   SpecDeliver  deliver_alert and the queueing that follows it;          *)
(*   SpecTrim     meta.sent_alert_ids over runs that record ids;           *)
(*   SpecVersion  the release alert of run();                              *)
(*   SpecPage     check_status_page applied to prior states and scrapes;   *)
(*   SpecStore    save_state / save_pending followed by the loads;         *)
(*   SpecTweets   check_account_tweets for one account, check after check; *)
(*   SpecChecks   the three loops of run() over the targets.               *)
(***************************************************************************)
EXTENDS Integers, Sequences, FiniteSets, TLC

VARIABLES
    now,                \* run(): now = utc_now()
    pc,                 \* position inside run(): idle, pending, alerts, save_state, save_pending
    runs,               \* number of runs started so far
    f_targets,          \* state file: keys of state["targets"]
    f_sent_alert_ids,   \* state file: meta.sent_alert_ids
    f_last_successful_run, \* state file: meta.last_successful_run
    f_pending,          \* pending-alerts file: list of PendingAlert
    first_run,          \* run(): first_run
    sent_alert_ids,     \* run(): sent_alert_ids (the list inside meta)
    pending_models,     \* run(): pending_models
    pending_i,          \* run(): position of the loop over pending_models
    remaining_pending,  \* run(): remaining_pending, a dict in insertion order
    all_alerts,         \* run(): all_alerts = watchdog_events + new_alerts
    alert_i,            \* run(): position of the loop over all_alerts
    sent_id_set,        \* run(): sent_id_set
    h_deliveries,       \* history: the deliver_alert calls of the current run
    h_failed,           \* history: alert_id -> number of failed deliver_alert calls
    h_dropped,          \* history: alert ids dropped for exceeding the retry window
    h_loaded_sent,      \* history: ids in meta.sent_alert_ids when the run loaded it
    h_generated,        \* history: number of alerts generated by the checks so far
    t_key,              \* status loop: target_key of the iteration
    t_state,            \* status loop: t_state, the target's record, a dict
    s_outcome,          \* status loop: what the last iteration did: none, skipped, ok, failed
    s_events,           \* status loop: result.events of the last successful check
    s_alerts,           \* status loop: the alerts the last iteration appended to new_alerts
    h_prev_state,       \* history: phase and content hash stored before the last iteration
    h_open_event,       \* history: an incident_started event has no incident_resolved yet
    h_open_backup,      \* history: a backup incident alert has no resolved alert yet
    h_prev_open_event,  \* history: h_open_event before the last iteration
    h_prev_open_backup, \* history: h_open_backup before the last iteration
    h_episode_started,  \* history: incident_started events of the current non-operational episode
    id_first,           \* build_alert_id: the arguments of one call
    id_second,          \* build_alert_id: the arguments of another call
    id_result,          \* build_alert_id: the keys hashed and the ids returned, once both ran
    g_targets,          \* state file: keys of state["targets"], as SpecRun's runs see it
    g_meta,             \* state file: meta.last_successful_run and meta.watchdog_alerted
    g_digest,           \* state file: digest (changes, failed_checks, alerts_sent, last_sent_date)
    g_out,              \* what the last run generated and handed to delivery
    h_digest_dates,     \* history: the local dates of the runs that generated a digest
    l_file,             \* the state file: missing, or its text
    l_step,             \* run(): file, loaded, started or failed
    l_state,            \* run(): state, once load_state returned
    d_email_client,     \* run(): email_client is not None (settings.allow_email_fallback)
    d_log,              \* history: the deliver_alert calls for new alerts and what followed
    c_pc,               \* loops over the targets: idle, checks, persist or aborted
    c_i,                \* loops over the targets: position in ChecksTargets
    c_targets,          \* state["targets"]: target_key -> the target's record
    c_digest,           \* state["digest"]: changes and failed_checks
    c_primary,          \* run(): primary_monitor_states, as the state of each monitored target
    h_c_start,          \* history: targets and failed_checks when the run started
    h_c_invoked,        \* history: the targets whose checker the run has invoked
    h_c_raised,         \* history: the targets whose checker raised in the run
    h_c_writes,         \* history: who wrote which key of which record in the run
    h_c_last_invoked,   \* history: target_key -> time of its latest invocation before this run
    m_pc,               \* run() and the sent ids: idle, recording or save
    m_runs,             \* number of runs that loaded meta.sent_alert_ids so far
    m_file,             \* state file: meta.sent_alert_ids, the ids named by the order of their recording
    m_ids,              \* run(): sent_alert_ids, the list inside meta
    h_m_recorded,       \* history: every id ever recorded, in recording order
    v_installed,        \* current_app_version(): the version of the installed package
    v_stored,           \* state file: meta.deployed_version, absent or a string
    v_targets,          \* state file: keys of state["targets"], as SpecVersion's runs see it
    v_new_alerts,       \* run(): new_alerts after line 335
    h_v_last_run_version,\* history: the installed version at the previous completed run
    p_previous,         \* check_status_page: previous_state, the target's record
    p_text,             \* check_status_page: merged_text, as the phrases it contains
    p_result,           \* check_status_page: the CheckResult, once it returned
    o_pc,               \* the two files: saving, saved_state, saved or loaded
    o_state,            \* run(): state, as save_state receives it
    o_pending,          \* run(): remaining_pending.values(), the PendingAlert items in order
    o_state_file,       \* the state file: missing, or its text
    o_pending_file,     \* the pending-alerts file: missing, or its text
    o_loaded_state,     \* next run: what load_state returned
    o_loaded_pending,   \* next run: what load_pending returned
    o_pending_models,   \* next run: pending_models
    w_state,            \* tweets loop: t_state, the record of the target api_tweets
    w_outcome,          \* tweets loop: what the last check did: none, ok or failed
    w_payload,          \* check_account_tweets: the tweets the last check fetched
    w_events,           \* tweets loop: result.events of the last check
    h_w_reported,       \* history: the ids of the tweets reported by the checks before the last one
    u_previous,         \* docs loop: t_state, the record of twitterapi_sitemap before the check
    u_sitemap,          \* check_sitemap: the url entries of the fetched sitemap, in document order
    u_fetch_fails,      \* check_sitemap: fetching a changed page raises
    u_result,           \* docs loop: what the call of check_sitemap did, once it was made
    u_state,            \* docs loop: t_state after the iteration
    y_tz,               \* settings.tz_name, as the zone's offset from UTC in seconds
    y_hour,             \* settings.digest_hour_local
    y_max_hours,        \* settings.retry_max_hours
    y_targets,          \* state file: whether targets holds a record
    y_last_sent_date,   \* state file: digest.last_sent_date, << >> when absent
    y_sent,             \* state file: the daily-digest ids of meta.sent_alert_ids
    y_pending,          \* pending file: the daily-digest items of the queue
    y_calls,            \* history: the deliver_alert calls of the latest run, in order
    h_y_digests,        \* history: (local date, alert id) of every digest handed to the alerts loop
    k_targets,          \* state file: targets, a map from target key to the target's record
    k_first_run,        \* first_run of the latest run
    k_new_alerts,       \* new_alerts of the latest run after the first-run override
    h_k_bootstraps,     \* history: the number of runs that generated the bootstrap alert
    r_sent,             \* state file: meta.sent_alert_ids
    r_pending,          \* pending file: the queue
    r_pc,               \* per run: where the run is
    r_now,              \* per run: the run's now
    r_loaded,           \* per run: what the run loaded from the two files
    r_result,           \* per run: sent_alert_ids, remaining_pending and the deliver_alert calls after the loops
    h_r_overlap,        \* history: the second run loaded before the first saved
    h_r_saves           \* history: the file replacements, in order, as (run, file)

\* The variables of SpecLoad, which the other specifications leave alone.
load_vars == <<l_file, l_step, l_state>>

\* The variables of SpecRun, which the other specifications leave alone.
run_vars == <<g_targets, g_meta, g_digest, g_out, h_digest_dates>>

\* The variables of SpecAlertId, which Spec and SpecStatus leave alone.
id_vars == <<id_first, id_second, id_result>>

\* The variables of the status loop, which Spec leaves alone.
status_vars == <<t_key, t_state, s_outcome, s_events, s_alerts, h_prev_state,
                 h_open_event, h_open_backup, h_prev_open_event, h_prev_open_backup,
                 h_episode_started>>

\* The variables of the delivery loops, which SpecStatus leaves alone.
queue_vars == <<pc, f_targets, f_sent_alert_ids, f_last_successful_run, f_pending,
                first_run, sent_alert_ids, pending_models, pending_i,
                remaining_pending, all_alerts, alert_i, sent_id_set, h_deliveries,
                h_failed, h_dropped, h_loaded_sent, h_generated>>

\* The variables of SpecDeliver.
deliver_vars == <<d_email_client, d_log>>

\* The variables of SpecTrim.
trim_vars == <<m_pc, m_runs, m_file, m_ids, h_m_recorded>>

\* The variables of SpecVersion.
version_vars == <<v_installed, v_stored, v_targets, v_new_alerts,
                  h_v_last_run_version>>

\* The variables of SpecPage.
page_vars == <<p_previous, p_text, p_result>>

\* The variables of SpecStore.
store_vars == <<o_pc, o_state, o_pending, o_state_file, o_pending_file,
                o_loaded_state, o_loaded_pending, o_pending_models>>

\* The variables of SpecTweets.
tweets_vars == <<w_state, w_outcome, w_payload, w_events, h_w_reported>>

\* The variables of SpecSitemap.
sitemap_vars == <<u_previous, u_sitemap, u_fetch_fails, u_result, u_state>>

\* The variables of SpecDigestId.
digestid_vars == <<y_tz, y_hour, y_max_hours, y_targets, y_last_sent_date,
                   y_sent, y_pending, y_calls, h_y_digests>>

\* The variables of SpecFirstRun.
firstrun_vars == <<k_targets, k_first_run, k_new_alerts, h_k_bootstraps>>

\* The variables of SpecOverlap.
overlap_vars == <<r_sent, r_pending, r_pc, r_now, r_loaded, r_result,
                  h_r_overlap, h_r_saves>>

\* The variables of SpecChecks.
checks_vars == <<c_pc, c_i, c_targets, c_digest, c_primary, h_c_start, h_c_invoked,
                 h_c_raised, h_c_writes, h_c_last_invoked>>

\* The variables Spec, SpecStatus, SpecAlertId, SpecRun and SpecLoad leave alone.
later_vars == <<deliver_vars, trim_vars, version_vars, page_vars, store_vars,
                tweets_vars, sitemap_vars, overlap_vars, digestid_vars,
                firstrun_vars, checks_vars>>

\* The variables SpecDeliver leaves alone.
other_than_deliver == <<queue_vars, status_vars, id_vars, run_vars,
                        load_vars, trim_vars, version_vars, page_vars,
                        store_vars, tweets_vars, sitemap_vars, overlap_vars,
                        digestid_vars, firstrun_vars, checks_vars>>

\* The variables SpecTrim leaves alone.
other_than_trim == <<queue_vars, status_vars, id_vars, run_vars, load_vars,
                     deliver_vars, version_vars, page_vars, store_vars,
                     tweets_vars, sitemap_vars, overlap_vars, digestid_vars,
                     firstrun_vars, checks_vars>>

\* The variables SpecVersion leaves alone.
other_than_version == <<queue_vars, status_vars, id_vars, run_vars,
                        load_vars, deliver_vars, trim_vars, page_vars,
                        store_vars, tweets_vars, sitemap_vars, overlap_vars,
                        digestid_vars, firstrun_vars, checks_vars>>

\* The variables SpecPage leaves alone.
other_than_page == <<queue_vars, status_vars, id_vars, run_vars, load_vars,
                     deliver_vars, trim_vars, version_vars, store_vars,
                     tweets_vars, sitemap_vars, overlap_vars, digestid_vars,
                     firstrun_vars, checks_vars>>

\* The variables SpecStore leaves alone.
other_than_store == <<queue_vars, status_vars, id_vars, run_vars, load_vars,
                      deliver_vars, trim_vars, version_vars, page_vars,
                      tweets_vars, sitemap_vars, overlap_vars, digestid_vars,
                      firstrun_vars, checks_vars>>

\* The variables SpecTweets leaves alone.
other_than_tweets == <<queue_vars, status_vars, id_vars, run_vars, load_vars,
                       deliver_vars, trim_vars, version_vars, page_vars,
                       store_vars, sitemap_vars, overlap_vars, digestid_vars,
                       firstrun_vars, checks_vars>>

\* The variables SpecSitemap leaves alone.
other_than_sitemap == <<queue_vars, status_vars, id_vars, run_vars,
                        load_vars, deliver_vars, trim_vars, version_vars,
                        page_vars, store_vars, tweets_vars, overlap_vars,
                        digestid_vars, firstrun_vars, checks_vars>>

\* The variables SpecOverlap leaves alone.
other_than_overlap == <<queue_vars, status_vars, id_vars, run_vars,
                        load_vars, deliver_vars, trim_vars, version_vars,
                        page_vars, store_vars, tweets_vars, sitemap_vars,
                        digestid_vars, firstrun_vars, checks_vars>>

\* The variables SpecDigestId leaves alone.
other_than_digestid == <<queue_vars, status_vars, id_vars, run_vars,
                         load_vars, deliver_vars, trim_vars, version_vars,
                         page_vars, store_vars, tweets_vars, sitemap_vars,
                         overlap_vars, firstrun_vars, checks_vars>>

\* The variables SpecFirstRun leaves alone.
other_than_firstrun == <<queue_vars, status_vars, id_vars, run_vars,
                         load_vars, deliver_vars, trim_vars, version_vars,
                         page_vars, store_vars, tweets_vars, sitemap_vars,
                         overlap_vars, digestid_vars, checks_vars>>

\* The variables SpecChecks leaves alone.
other_than_checks == <<queue_vars, status_vars, id_vars, run_vars, load_vars,
                       deliver_vars, trim_vars, version_vars, page_vars,
                       store_vars, tweets_vars, sitemap_vars, overlap_vars,
                       digestid_vars, firstrun_vars>>

vars == <<now, pc, runs, f_targets, f_sent_alert_ids, f_last_successful_run,
          f_pending, first_run, sent_alert_ids, pending_models, pending_i,
          remaining_pending, all_alerts, alert_i, sent_id_set, h_deliveries,
          h_failed, h_dropped, h_loaded_sent, h_generated, t_key, t_state,
          s_outcome, s_events, s_alerts, h_prev_state, h_open_event, h_open_backup,
          h_prev_open_event, h_prev_open_backup, h_episode_started,
          id_first, id_second, id_result,
          g_targets, g_meta, g_digest, g_out, h_digest_dates,
          l_file, l_step, l_state, later_vars>>

---------------------------------------------------------------------------
(* Settings (config.py defaults) and program constants.                    *)

retry_minutes == <<1, 5, 15, 60>>

retry_tail_minutes == 360

retry_max_hours == 48

allow_email_fallback == TRUE

SentIdsLimit == 2000

TargetKeys == {"x_status", "twitterapi_status", "api_tweets", "xdevelopers_tweets",
               "x_docs_github", "x_changelog", "twitterapi_changelog",
               "twitterapi_sitemap"}

---------------------------------------------------------------------------
(* Bounds of the model.                                                    *)

MaxRuns == 5

MaxGenerated == 2

\* Seconds between the starts of two consecutive runs.
Deltas == {20, 3600, 172800}

\* (source, summary) of the alerts the checks of a run may generate.
Contents == { <<"x_status", "unreachable">> }

\* A channel's send(): returns True, returns False, or raises.
ChannelResults == {"true", "false", "raise"}

---------------------------------------------------------------------------
(* Helpers.                                                                *)

Minutes(m) == m * 60

Hours(h) == h * 3600

Range(s) == { s[i] : i \in DOMAIN s }

Ids(items) == { items[i].payload.alert_id : i \in DOMAIN items }

\* datetime.isoformat() of a timestamp: one string per instant.
IsoFormat(t) == ToString(t)

\* timestamp.replace(second=0, microsecond=0)
TruncateToMinute(t) == t - (t % 60)

\* hashlib.sha256(raw).hexdigest()[:24], idealised as collision free: the id
\* is determined by, and determines, the pre-hash key.
Sha256Hex24(raw) == <<"sha256", raw>>

AlertKey(source, summary, timestamp) ==
    source \o "|" \o summary \o "|" \o IsoFormat(TruncateToMinute(timestamp))

build_alert_id(source, summary, timestamp) ==
    Sha256Hex24(AlertKey(source, summary, timestamp))

AlertPayload(source, summary, t) ==
    [alert_id |-> build_alert_id(source, summary, t), source |-> source, created_at |-> t]

BootstrapAlert(t) ==
    [alert_id |-> build_alert_id("init", "initialized", t), source |-> "bootstrap",
     created_at |-> t]

PendingAlert(payload, attempts, first_failed_at, next_retry_at) ==
    [payload |-> payload, attempts |-> attempts, first_failed_at |-> first_failed_at,
     next_retry_at |-> next_retry_at]

\* next_retry_time reading the schedule one entry too far.
next_retry_time_IndexOffByOne(t, attempts, first_failed_at) ==
    LET elapsed == t - first_failed_at
        delay_minutes == IF attempts < Len(retry_minutes)
                           THEN retry_minutes[attempts + 1]
                           ELSE retry_tail_minutes
    IN  IF elapsed > Hours(retry_max_hours)
          THEN << >>
          ELSE << t + Minutes(delay_minutes) >>

\* next_retry_time adding the delay to first_failed_at instead of now.
next_retry_time_FromFirstFailure(t, attempts, first_failed_at) ==
    LET elapsed == t - first_failed_at
        delay_minutes == IF attempts <= Len(retry_minutes)
                           THEN retry_minutes[attempts]
                           ELSE retry_tail_minutes
    IN  IF elapsed > Hours(retry_max_hours)
          THEN << >>
          ELSE << first_failed_at + Minutes(delay_minutes) >>

\* next_retry_time without the retry window.
next_retry_time_NoWindow(t, attempts, first_failed_at) ==
    LET delay_minutes == IF attempts <= Len(retry_minutes)
                           THEN retry_minutes[attempts]
                           ELSE retry_tail_minutes
    IN  << t + Minutes(delay_minutes) >>

\* next_retry_time taking retry_max_hours as days.
next_retry_time_WindowInDays(t, attempts, first_failed_at) ==
    LET elapsed == t - first_failed_at
        delay_minutes == IF attempts <= Len(retry_minutes)
                           THEN retry_minutes[attempts]
                           ELSE retry_tail_minutes
    IN  IF elapsed > Hours(24 * retry_max_hours)
          THEN << >>
          ELSE << t + Minutes(delay_minutes) >>

next_retry_time(t, attempts, first_failed_at) ==
    LET elapsed == t - first_failed_at
        delay_minutes == IF attempts <= Len(retry_minutes)
                           THEN retry_minutes[attempts]
                           ELSE retry_tail_minutes
    IN  IF elapsed > Hours(retry_max_hours)
          THEN << >>
          ELSE << t + Minutes(delay_minutes) >>

\* trim_sent_ids keeping the first limit entries instead of the last.
trim_sent_ids_KeepsOldest(ids) ==
    IF Len(ids) <= SentIdsLimit
      THEN ids
      ELSE SubSeq(ids, 1, SentIdsLimit)

trim_sent_ids(ids) ==
    IF Len(ids) <= SentIdsLimit
      THEN ids
      ELSE SubSeq(ids, Len(ids) - SentIdsLimit + 1, Len(ids))

deliver_alert(slack, email) ==
    LET sent_to_slack == (slack = "true")
    IN  IF sent_to_slack THEN TRUE
        ELSE IF ~allow_email_fallback THEN FALSE
        ELSE email = "true"

\* remaining_pending[alert_id] = item: replaces the entry of that key in place,
\* or appends a new one.
DictSet(d, item) ==
    IF item.payload.alert_id \in Ids(d)
      THEN [i \in DOMAIN d |->
              IF d[i].payload.alert_id = item.payload.alert_id THEN item ELSE d[i]]
      ELSE Append(d, item)

\* SkipNewAlert without the test against sent_id_set.
SkipNewAlert_NoSentTest(alert, sent_ids, remaining) ==
    alert.alert_id \in Ids(remaining)

\* SkipNewAlert without the test against remaining_pending.
SkipNewAlert_NoQueueTest(alert, sent_ids, remaining) ==
    alert.alert_id \in sent_ids

\* The test of the loop over all_alerts that skips an alert.
SkipNewAlert(alert, sent_ids, remaining) ==
    \/ alert.alert_id \in sent_ids
    \/ alert.alert_id \in Ids(remaining)

\* RetryOutcome writing the item back with its attempts not incremented.
RetryOutcome_SameAttempts(pending_item, t) ==
    LET attempts == pending_item.attempts + 1
        next_time == next_retry_time(t, attempts, pending_item.first_failed_at)
    IN  IF next_time = << >>
          THEN << >>
          ELSE << PendingAlert(pending_item.payload, pending_item.attempts,
                               pending_item.first_failed_at, next_time[1]) >>

\* run(), lines 640-650: a due item whose delivery failed again is dropped
\* (no item) or kept with one more attempt and a new retry time.
RetryOutcome(pending_item, t) ==
    LET attempts == pending_item.attempts + 1
        next_time == next_retry_time(t, attempts, pending_item.first_failed_at)
    IN  IF next_time = << >>
          THEN << >>
          ELSE << PendingAlert(pending_item.payload, attempts,
                               pending_item.first_failed_at, next_time[1]) >>

\* NewFailureOutcome forgetting to queue the alert.
NewFailureOutcome_NotQueued(alert, t) == << >>

\* run(), lines 664-672: a new alert whose delivery failed is queued.
NewFailureOutcome(alert, t) ==
    LET next_time == next_retry_time(t, 1, t)
    IN  IF next_time = << >>
          THEN << >>
          ELSE << PendingAlert(alert, 1, t, next_time[1]) >>

FailedCount(id) == IF id \in DOMAIN h_failed THEN h_failed[id] ELSE 0

CountFailure(id) ==
    [x \in DOMAIN h_failed \cup {id} |-> IF x = id THEN FailedCount(id) + 1 ELSE h_failed[x]]

\* The alerts of a run that is not a first run: any sequence of at most two
\* alerts, each built with the run's now.
GenChoices(t) ==
    { << >> } \cup
    { << AlertPayload(c[1], c[2], t) >> : c \in Contents } \cup
    { << AlertPayload(c[1], c[2], t), AlertPayload(d[1], d[2], t) >> : c \in Contents, d \in Contents }

---------------------------------------------------------------------------
(* Spec: run() after run().                                                *)

\* No files yet: load_state gives default_state(), load_pending gives [].
QueueVarsInit ==
    /\ pc = "idle"
    /\ f_targets = {}
    /\ f_sent_alert_ids = << >>
    /\ f_last_successful_run = << >>
    /\ f_pending = << >>
    /\ first_run = FALSE
    /\ sent_alert_ids = << >>
    /\ pending_models = << >>
    /\ pending_i = 1
    /\ remaining_pending = << >>
    /\ all_alerts = << >>
    /\ alert_i = 1
    /\ sent_id_set = {}
    /\ h_deliveries = << >>
    /\ h_failed = [x \in {} |-> 0]
    /\ h_dropped = {}
    /\ h_loaded_sent = {}
    /\ h_generated = 0

\* target_state(target_key) of a target with no record yet: an empty dict.
StatusVarsInit ==
    /\ t_state = [x \in {} |-> 0]
    /\ s_outcome = "none"
    /\ s_events = << >>
    /\ s_alerts = << >>
    /\ h_prev_state = [phase |-> "unknown", content_hash |-> ""]
    /\ h_open_event = FALSE
    /\ h_open_backup = FALSE
    /\ h_prev_open_event = FALSE
    /\ h_prev_open_backup = FALSE
    /\ h_episode_started = 0

\* default_state(): no state file yet; no run has generated anything.
RunVarsInit ==
    /\ g_targets = {}
    /\ g_meta = [last_successful_run |-> << >>, watchdog_alerted |-> FALSE]
    /\ g_digest = [changes |-> << >>, alerts_sent |-> 0, failed_checks |-> << >>,
                   last_sent_date |-> << >>]
    /\ g_out = [first_run |-> FALSE, watchdog_events |-> << >>, generated |-> << >>,
                new_alerts |-> << >>, all_alerts |-> << >>, digest |-> << >>]
    /\ h_digest_dates = << >>

\* No state file, nothing loaded.
LoadVarsInit ==
    /\ l_file = [kind |-> "missing"]
    /\ l_step = "file"
    /\ l_state = << >>

IdVarsInit ==
    /\ id_first = [source |-> "init", summary |-> "initialized", timestamp |-> 0]
    /\ id_second = id_first
    /\ id_result = << >>

\* No alert has been handed to deliver_alert.
DeliverVarsInit ==
    /\ d_email_client = allow_email_fallback
    /\ d_log = << >>

\* No state file yet: no id was ever recorded.
TrimVarsInit ==
    /\ m_pc = "idle"
    /\ m_runs = 0
    /\ m_file = << >>
    /\ m_ids = << >>
    /\ h_m_recorded = << >>

\* No state file yet: no deployed_version is stored.
VersionVarsInit ==
    /\ v_installed = "0.1.0"
    /\ v_stored = << >>
    /\ v_targets = {}
    /\ v_new_alerts = << >>
    /\ h_v_last_run_version = << >>

\* No call of check_status_page yet.
PageVarsInit ==
    /\ p_previous = [x \in {} |-> 0]
    /\ p_text = {}
    /\ p_result = << >>

\* Neither file exists yet.
StoreVarsInit ==
    /\ o_pc = "saving"
    /\ o_state = [x \in {} |-> 0]
    /\ o_pending = << >>
    /\ o_state_file = [kind |-> "missing"]
    /\ o_pending_file = [kind |-> "missing"]
    /\ o_loaded_state = << >>
    /\ o_loaded_pending = << >>
    /\ o_pending_models = << >>

\* No check of the account yet.
TweetsVarsInit ==
    /\ w_state = [x \in {} |-> 0]
    /\ w_outcome = "none"
    /\ w_payload = << >>
    /\ w_events = << >>
    /\ h_w_reported = {}

\* No state file yet: no target has a record, the digest logs are empty.
ChecksVarsInit ==
    /\ c_pc = "idle"
    /\ c_i = 1
    /\ c_targets = [x \in {} |-> 0]
    /\ c_digest = [changes |-> << >>, failed_checks |-> << >>]
    /\ c_primary = "unknown"
    /\ h_c_start = [targets |-> [x \in {} |-> 0], failed_checks |-> << >>]
    /\ h_c_invoked = {}
    /\ h_c_raised = {}
    /\ h_c_writes = {}
    /\ h_c_last_invoked = [x \in {} |-> 0]

\* No check of the sitemap yet.
SitemapVarsInit ==
    /\ u_previous = [x \in {} |-> 0]
    /\ u_sitemap = << >>
    /\ u_fetch_fails = FALSE
    /\ u_result = << >>
    /\ u_state = [x \in {} |-> 0]

\* No files yet; the settings are those of the configuration.
DigestidVarsInit ==
    /\ y_tz = 0
    /\ y_hour = 8
    /\ y_max_hours = 48
    /\ y_targets = FALSE
    /\ y_last_sent_date = << >>
    /\ y_sent = << >>
    /\ y_pending = << >>
    /\ y_calls = << >>
    /\ h_y_digests = {}

\* No state file yet: default_state() has an empty targets map.
FirstrunVarsInit ==
    /\ k_targets = [x \in {} |-> 0]
    /\ k_first_run = FALSE
    /\ k_new_alerts = << >>
    /\ h_k_bootstraps = 0

\* Both files as a run left them that delivered nothing; no run has started.
OverlapVarsInit ==
    /\ r_sent = << >>
    /\ r_pending = << >>
    /\ r_pc = << >>
    /\ r_now = << >>
    /\ r_loaded = << >>
    /\ r_result = << >>
    /\ h_r_overlap = FALSE
    /\ h_r_saves = << >>

LaterVarsInit ==
    /\ DeliverVarsInit
    /\ TrimVarsInit
    /\ VersionVarsInit
    /\ PageVarsInit
    /\ StoreVarsInit
    /\ TweetsVarsInit
    /\ ChecksVarsInit
    /\ OverlapVarsInit
    /\ FirstrunVarsInit
    /\ DigestidVarsInit
    /\ SitemapVarsInit

Init ==
    /\ now = 0
    /\ runs = 0
    /\ QueueVarsInit
    /\ LaterVarsInit
    /\ StatusVarsInit
    /\ IdVarsInit
    /\ RunVarsInit
    /\ LoadVarsInit
    /\ t_key = "x_status"

\* run(), lines 265-620: load both files, take now, run the checks, and on a
\* first run replace what they generated by the bootstrap alert.
BeginRun ==
    /\ pc = "idle"
    /\ UNCHANGED <<status_vars, id_vars, run_vars, load_vars, later_vars>>
    /\ runs < MaxRuns
    /\ \E d \in Deltas :
         /\ now' = now + d
         /\ first_run' = (f_targets = {})
         /\ IF first_run'
              THEN /\ all_alerts' = << BootstrapAlert(now') >>
                   /\ h_generated' = h_generated
              ELSE \E gen \in GenChoices(now') :
                     /\ h_generated + Len(gen) <= MaxGenerated
                     /\ all_alerts' = gen
                     /\ h_generated' = h_generated + Len(gen)
    /\ runs' = runs + 1
    /\ sent_alert_ids' = f_sent_alert_ids
    /\ pending_models' = f_pending
    /\ pending_i' = 1
    /\ remaining_pending' = << >>
    /\ alert_i' = 1
    /\ sent_id_set' = {}
    /\ h_deliveries' = << >>
    /\ h_loaded_sent' = Range(f_sent_alert_ids)
    /\ pc' = "pending"
    /\ UNCHANGED <<f_targets, f_sent_alert_ids, f_last_successful_run, f_pending,
                   h_failed, h_dropped>>

\* NotDue holding also for an item whose retry time is this very instant.
NotDue_UntilAfter(pending_item, t) == pending_item.next_retry_at >= t

\* run(), line 632: the item's retry time has not come.
NotDue(pending_item, t) == pending_item.next_retry_at > t

\* run(), lines 631-650: one iteration of the loop over pending_models.
RetryPending ==
    /\ pc = "pending"
    /\ UNCHANGED <<status_vars, id_vars, run_vars, load_vars, later_vars>>
    /\ pending_i <= Len(pending_models)
    /\ LET pending_item == pending_models[pending_i]
           id == pending_item.payload.alert_id
       IN  IF NotDue(pending_item, now)
             THEN /\ remaining_pending' = DictSet(remaining_pending, pending_item)
                  /\ UNCHANGED <<sent_alert_ids, h_deliveries, h_failed, h_dropped>>
             ELSE \E slack \in ChannelResults, email \in ChannelResults :
                    LET sent == deliver_alert(slack, email)
                        outcome == RetryOutcome(pending_item, now)
                        call == [alert_id |-> id, from |-> "queue", sent |-> sent,
                                 in_sent_ids |-> id \in Range(sent_alert_ids),
                                 after_drop |-> id \in h_dropped,
                                 item |-> << pending_item >>]
                    IN  /\ h_deliveries' = Append(h_deliveries, call)
                        /\ IF sent
                             THEN /\ sent_alert_ids' = Append(sent_alert_ids, id)
                                  /\ UNCHANGED <<remaining_pending, h_failed, h_dropped>>
                             ELSE /\ h_failed' = CountFailure(id)
                                  /\ UNCHANGED sent_alert_ids
                                  /\ IF outcome = << >>
                                       THEN /\ h_dropped' = h_dropped \cup {id}
                                            /\ UNCHANGED remaining_pending
                                       ELSE /\ remaining_pending' =
                                                 DictSet(remaining_pending, outcome[1])
                                            /\ UNCHANGED h_dropped
    /\ pending_i' = pending_i + 1
    /\ UNCHANGED <<now, pc, runs, f_targets, f_sent_alert_ids, f_last_successful_run,
                   f_pending, first_run, pending_models, all_alerts, alert_i,
                   sent_id_set, h_loaded_sent, h_generated>>

\* run(), line 652: the loop over pending_models is over; sent_id_set is built.
BuildSentIdSet ==
    /\ pc = "pending"
    /\ UNCHANGED <<status_vars, id_vars, run_vars, load_vars, later_vars>>
    /\ pending_i > Len(pending_models)
    /\ sent_id_set' = Range(sent_alert_ids)
    /\ pc' = "alerts"
    /\ UNCHANGED <<now, runs, f_targets, f_sent_alert_ids, f_last_successful_run,
                   f_pending, first_run, sent_alert_ids, pending_models, pending_i,
                   remaining_pending, all_alerts, alert_i, h_deliveries, h_failed,
                   h_dropped, h_loaded_sent, h_generated>>

\* run(), lines 653-672: one iteration of the loop over all_alerts.
DeliverNew ==
    /\ pc = "alerts"
    /\ UNCHANGED <<status_vars, id_vars, run_vars, load_vars, later_vars>>
    /\ alert_i <= Len(all_alerts)
    /\ LET alert == all_alerts[alert_i]
           id == alert.alert_id
       IN  IF SkipNewAlert(alert, sent_id_set, remaining_pending)
             THEN UNCHANGED <<sent_alert_ids, sent_id_set, remaining_pending,
                              h_deliveries, h_failed>>
             ELSE \E slack \in ChannelResults, email \in ChannelResults :
                    LET sent == deliver_alert(slack, email)
                        outcome == NewFailureOutcome(alert, now)
                        call == [alert_id |-> id, from |-> "new", sent |-> sent,
                                 in_sent_ids |-> id \in Range(sent_alert_ids),
                                 after_drop |-> id \in h_dropped,
                                 item |-> << >>]
                    IN  /\ h_deliveries' = Append(h_deliveries, call)
                        /\ IF sent
                             THEN /\ sent_alert_ids' = Append(sent_alert_ids, id)
                                  /\ sent_id_set' = sent_id_set \cup {id}
                                  /\ UNCHANGED <<remaining_pending, h_failed>>
                             ELSE /\ h_failed' = CountFailure(id)
                                  /\ UNCHANGED <<sent_alert_ids, sent_id_set>>
                                  /\ IF outcome = << >>
                                       THEN UNCHANGED remaining_pending
                                       ELSE remaining_pending' =
                                              DictSet(remaining_pending, outcome[1])
    /\ alert_i' = alert_i + 1
    /\ UNCHANGED <<now, pc, runs, f_targets, f_sent_alert_ids, f_last_successful_run,
                   f_pending, first_run, pending_models, pending_i, all_alerts,
                   h_dropped, h_loaded_sent, h_generated>>

\* SaveState writing the state file without setting last_successful_run.
SaveState_KeepsLastRun ==
    /\ pc = "alerts"
    /\ UNCHANGED <<status_vars, id_vars, run_vars, load_vars, later_vars>>
    /\ alert_i > Len(all_alerts)
    /\ f_sent_alert_ids' = trim_sent_ids(sent_alert_ids)
    /\ UNCHANGED f_last_successful_run
    /\ f_targets' = TargetKeys
    /\ pc' = "save_pending"
    /\ UNCHANGED <<now, runs, f_pending, first_run, sent_alert_ids, pending_models,
                   pending_i, remaining_pending, all_alerts, alert_i, sent_id_set,
                   h_deliveries, h_failed, h_dropped, h_loaded_sent, h_generated>>

\* run(), lines 674-677: the loop over all_alerts is over; the sent ids are
\* trimmed, last_successful_run is set and the state file is replaced.
SaveState ==
    /\ pc = "alerts"
    /\ UNCHANGED <<status_vars, id_vars, run_vars, load_vars, later_vars>>
    /\ alert_i > Len(all_alerts)
    /\ f_sent_alert_ids' = trim_sent_ids(sent_alert_ids)
    /\ f_last_successful_run' = << now >>
    /\ f_targets' = TargetKeys
    /\ pc' = "save_pending"
    /\ UNCHANGED <<now, runs, f_pending, first_run, sent_alert_ids, pending_models,
                   pending_i, remaining_pending, all_alerts, alert_i, sent_id_set,
                   h_deliveries, h_failed, h_dropped, h_loaded_sent, h_generated>>

\* run(), lines 678-680: the pending-alerts file is replaced and run() returns.
SavePending ==
    /\ pc = "save_pending"
    /\ UNCHANGED <<status_vars, id_vars, run_vars, load_vars, later_vars>>
    /\ f_pending' = remaining_pending
    /\ pc' = "idle"
    /\ UNCHANGED <<now, runs, f_targets, f_sent_alert_ids, f_last_successful_run,
                   first_run, sent_alert_ids, pending_models, pending_i,
                   remaining_pending, all_alerts, alert_i, sent_id_set,
                   h_deliveries, h_failed, h_dropped, h_loaded_sent, h_generated>>

Next ==
    \/ BeginRun
    \/ RetryPending
    \/ BuildSentIdSet
    \/ DeliverNew
    \/ SaveState
    \/ SavePending

Spec == Init /\ [][Next]_vars

---------------------------------------------------------------------------
(* Claims about the delivery loops and the retry queue (Spec).             *)

Calls == Range(h_deliveries)

CallsFor(id) == { c \in Calls : c.alert_id = id }

ItemOf(items, id) == CHOOSE x \in Range(items) : x.payload.alert_id = id

\* retry_max_hours as seconds.
RetryWindow == Hours(retry_max_hours)

\* The delay the claims give for an item that has failed k times: the k-th
\* entry of the schedule, the tail delay beyond the schedule.
ClaimDelayMinutes(k) ==
    IF k <= Len(retry_minutes) THEN retry_minutes[k] ELSE retry_tail_minutes

\* C1: no deliver_alert call is made for a payload whose alert_id is in
\* meta.sent_alert_ids at the moment of the call, be it a regenerated alert
\* or an item of the retry queue.
C1_NoDeliveryOfSentId ==
    \A c \in Calls : ~c.in_sent_ids

\* C1 witness: a run that is not a first run regenerated an alert whose id
\* the state file already held as sent, went past it and made no call for it.
C1_Witness ==
    /\ ~first_run
    /\ pc = "alerts"
    /\ \E i \in 1..(alert_i - 1) :
         /\ i <= Len(all_alerts)
         /\ all_alerts[i].alert_id \in h_loaded_sent
         /\ CallsFor(all_alerts[i].alert_id) = {}

\* C2: in a completed run that is not a first run, every generated alert
\* whose id was neither in the sent set nor in the retry queue when the run
\* loaded them got a deliver_alert call in that run, and its id is afterwards
\* in the saved sent ids or in the saved retry queue.
C2_GeneratedAlertNotLost ==
    (pc = "idle" /\ runs > 0 /\ ~first_run) =>
      \A i \in DOMAIN all_alerts :
        LET id == all_alerts[i].alert_id
        IN  (id \notin h_loaded_sent /\ id \notin Ids(pending_models)) =>
              /\ \E c \in CallsFor(id) : c.from = "new"
              /\ \/ id \in Range(f_sent_alert_ids)
                 \/ id \in Ids(f_pending)

\* C2 witness: a completed run that is not a first run generated an alert
\* that was new to both files, its delivery failed and it is in the saved queue.
C2_Witness ==
    /\ pc = "idle" /\ runs > 0 /\ ~first_run
    /\ \E i \in DOMAIN all_alerts :
         LET id == all_alerts[i].alert_id
         IN  /\ id \notin h_loaded_sent
             /\ id \notin Ids(pending_models)
             /\ id \in Ids(f_pending)
             /\ \E c \in CallsFor(id) : ~c.sent

RECURSIVE MinElapsedMinutes(_)
MinElapsedMinutes(k) ==
    IF k <= 1 THEN 0 ELSE MinElapsedMinutes(k - 1) + ClaimDelayMinutes(k - 1)

MaxDelayMinutes ==
    LET all == Range(retry_minutes) \cup {retry_tail_minutes}
    IN  CHOOSE m \in all : \A n \in all : n <= m

\* The most attempts an item can reach inside the retry window.
AttemptsBound ==
    CHOOSE k \in 1..(60 * retry_max_hours + 1) :
      /\ Minutes(MinElapsedMinutes(k)) <= RetryWindow
      /\ Minutes(MinElapsedMinutes(k + 1)) > RetryWindow

\* C7: nothing is retried for ever.  Every item of the saved queue failed
\* last inside the retry window, so its attempts are at most AttemptsBound,
\* and it is due strictly after the run that saved it and at most one
\* longest delay after the window: a run at or after first_failed_at + window
\* + longest delay finds it due and either delivers it or drops it.
C7_RetryBounded ==
    (pc = "idle") =>
      \A x \in Range(f_pending) :
        LET last_failure == x.next_retry_at - Minutes(ClaimDelayMinutes(x.attempts))
        IN  /\ last_failure - x.first_failed_at <= RetryWindow
            /\ last_failure - x.first_failed_at >= Minutes(MinElapsedMinutes(x.attempts))
            /\ x.attempts <= AttemptsBound
            /\ x.next_retry_at > now
            /\ now - x.first_failed_at < RetryWindow + Minutes(MaxDelayMinutes)

\* C7 witness: every delivery so far failed, an item was retried and later
\* dropped, and the saved queue is empty again.
C7_Witness ==
    /\ pc = "idle"
    /\ h_dropped # {}
    /\ f_pending = << >>
    /\ f_sent_alert_ids = << >>
    /\ \E id \in h_dropped : FailedCount(id) >= 3

\* C8: a failed retry of a queue item that fails for the k-th time sets
\* next_retry_at = now + delay(k), delay(k) the k-th schedule entry or the
\* tail delay, and the new next_retry_at is strictly later than the old one.
C8_RetryTimeFollowsSchedule ==
    \A c \in Calls :
      (c.from = "queue" /\ ~c.sent /\ c.alert_id \in Ids(remaining_pending)) =>
        LET old == c.item[1]
            new == ItemOf(remaining_pending, c.alert_id)
        IN  /\ new.attempts = old.attempts + 1
            /\ new.next_retry_at = now + Minutes(ClaimDelayMinutes(new.attempts))
            /\ new.next_retry_at > old.next_retry_at
            /\ new.first_failed_at = old.first_failed_at

\* C8 witness: an item failed for the fifth time, beyond the four entries of
\* the schedule, and was written back with the tail delay.
C8_Witness ==
    \E c \in Calls :
      /\ c.from = "queue" /\ ~c.sent
      /\ c.alert_id \in Ids(remaining_pending)
      /\ ItemOf(remaining_pending, c.alert_id).attempts > Len(retry_minutes)
      /\ ItemOf(remaining_pending, c.alert_id).next_retry_at = now + Minutes(retry_tail_minutes)

\* C9: when the delivery of a newly generated alert fails, the queue gets a
\* PendingAlert for it with attempts = 1, first_failed_at = now and
\* next_retry_at = now + schedule[0], one minute with the default schedule.
C9_FirstFailureQueued ==
    \A c \in Calls :
      (c.from = "new" /\ ~c.sent) =>
        /\ c.alert_id \in Ids(remaining_pending)
        /\ LET x == ItemOf(remaining_pending, c.alert_id)
           IN  /\ x.attempts = 1
               /\ x.first_failed_at = now
               /\ x.next_retry_at = now + Minutes(retry_minutes[1])
               /\ x.next_retry_at = now + 60
               /\ x.payload.alert_id = c.alert_id

\* C9 witness: the delivery of a generated alert of a later run has failed.
C9_Witness ==
    /\ ~first_run
    /\ \E c \in Calls : c.from = "new" /\ ~c.sent

\* C10: every queue item stands for an alert whose delivery was attempted
\* and failed: an item of the run's queue is either a not yet due item taken
\* over unchanged from the file or follows a failed call of this run, and the
\* attempts of every item (the run's, and the file's after a completed run)
\* are at least 1 and equal the number of failed calls made for its id.
C10_QueueHoldsFailedAlerts ==
    /\ \A x \in Range(remaining_pending) :
         /\ x.attempts >= 1
         /\ x.attempts = FailedCount(x.payload.alert_id)
         /\ \/ x \in Range(pending_models) /\ x.next_retry_at > now
            \/ \E c \in CallsFor(x.payload.alert_id) : ~c.sent
    /\ (pc = "idle") =>
         \A x \in Range(f_pending) :
           /\ x.attempts >= 1
           /\ x.attempts = FailedCount(x.payload.alert_id)

\* C10 witness: the saved queue holds an item that has failed three times.
C10_Witness ==
    /\ pc = "idle"
    /\ \E x \in Range(f_pending) :
         x.attempts = 3 /\ FailedCount(x.payload.alert_id) = 3

CallCount(id) == Cardinality({ i \in DOMAIN h_deliveries : h_deliveries[i].alert_id = id })

\* C11: an item of the loaded queue whose next_retry_at is later than now
\* gets no deliver_alert call in the run and is written back as it was
\* loaded (payload, attempts, first_failed_at, next_retry_at); an item whose
\* next_retry_at is now or earlier gets exactly one deliver_alert call in the
\* run.
C11_OnlyDueItemsRetried ==
    \A j \in DOMAIN pending_models :
        j < pending_i =>
            LET x == pending_models[j]
            IN  IF x.next_retry_at > now
                  THEN /\ CallCount(x.payload.alert_id) = 0
                       /\ x \in Range(remaining_pending)
                       /\ (pc = "idle") => x \in Range(f_pending)
                  ELSE CallCount(x.payload.alert_id) = 1

\* A finished run whose queue held an item that was not due, saved as it
\* was, and an item that was due, retried once.
C11_Witness ==
    /\ pc = "idle"
    /\ \E j, k \in DOMAIN pending_models :
         /\ pending_models[j].next_retry_at > now
         /\ pending_models[j] \in Range(f_pending)
         /\ CallCount(pending_models[j].payload.alert_id) = 0
         /\ pending_models[k].next_retry_at <= now
         /\ CallCount(pending_models[k].payload.alert_id) = 1

\* C23: at every point of a run, where the run may be killed, the state file
\* and the pending-alerts file on disk are either both as the run found them
\* or both as the run writes them: never the state of this run next to the
\* queue of the run before, nor the reverse.
C23_StateAndQueueAtomic ==
    pc # "idle" =>
      \/ f_last_successful_run # << now >> /\ f_pending = pending_models
      \/ f_last_successful_run = << now >> /\ f_pending = remaining_pending

---------------------------------------------------------------------------
(* SpecStatus: the body of run()'s loop over status_checks for one status  *)
(* target, one run after another.  A scraped page is the set of the        *)
(* phrases _phase_from_text looks for that its text contains.              *)

status_interval_minutes == 5

status_backup_alert_delay_minutes == 10

unreachable_alert_after_failures == 3

\* run() calls check_status_page with alert_delay_minutes=0.
alert_delay_minutes == 0

StatusTargets == {"x_status", "twitterapi_status"}

\* normalize_monitor_status: the gate only tells "down" from the rest;
\* "unknown" also stands for a monitor id missing from the fetched states.
PrimaryStates == {"up", "down", "unknown"}

MaxChecks == 5

MaxFailures == 4

\* Seconds between the starts of two consecutive runs.
StatusDeltas == {120, 300, 600}

Pages == { {"all systems operational"}, {"major outage"}, {"major outage", "incident"},
           {"monitoring"}, {} }

Get(d, k, default) == IF k \in DOMAIN d THEN d[k] ELSE default

Put(d, k, v) == (k :> v) @@ d

\* dict.update
Merge(d, e) == e @@ d

should_run(last_checked, interval_minutes, t) ==
    IF last_checked = << >>
      THEN TRUE
      ELSE (t - last_checked[1]) >= Minutes(interval_minutes)

_phase_from_text(text) ==
    IF "all systems operational" \in text \/ "active incidents 0" \in text THEN "operational"
    ELSE IF "major outage" \in text THEN "major_outage"
    ELSE IF "partial outage" \in text THEN "partial_outage"
    ELSE IF "degraded" \in text THEN "degraded"
    ELSE IF "maintenance" \in text THEN "maintenance"
    ELSE IF "monitoring" \in text \/ "incident" \in text THEN "monitoring"
    ELSE IF "operational" \in text THEN "operational"
    ELSE "unknown"

\* _level_for_phase taking maintenance and monitoring for critical as well.
_level_for_phase_AllCritical(phase) ==
    IF phase \in {"major_outage", "partial_outage", "degraded", "maintenance", "monitoring"}
      THEN "critical"
    ELSE IF phase = "operational" THEN "resolved"
    ELSE "info"

_level_for_phase(phase) ==
    IF phase \in {"major_outage", "partial_outage", "degraded"} THEN "critical"
    ELSE IF phase \in {"maintenance", "monitoring"} THEN "warning"
    ELSE IF phase = "operational" THEN "resolved"
    ELSE "info"

phase_to_level(phase) ==
    IF phase \in {"major_outage", "partial_outage", "degraded"} THEN "critical"
    ELSE IF phase \in {"maintenance", "monitoring"} THEN "warning"
    ELSE IF phase = "operational" THEN "resolved"
    ELSE "info"

\* "sha256:" + hashlib.sha256(text).hexdigest(), idealised as collision free.
_hash_text(text) == "sha256:" \o ToString(text)

\* phase.replace("_", " ")
PhaseLabel(phase) ==
    CASE phase = "major_outage" -> "major outage"
      [] phase = "partial_outage" -> "partial outage"
      [] OTHER -> phase

\* is_backup_non_operational counting the monitoring phase as well.
is_backup_non_operational_WithMonitoring(phase) ==
    phase \in {"major_outage", "partial_outage", "degraded", "maintenance", "monitoring"}

is_backup_non_operational(phase) ==
    phase \in {"major_outage", "partial_outage", "degraded", "maintenance"}

\* is_primary_non_operational never taking the primary for down.
is_primary_non_operational_Never(state) == FALSE

is_primary_non_operational(state) == state = "down"

ChangeEvent(target, summary, severity, t, kind) ==
    [target |-> target, summary |-> summary, severity |-> severity,
     occurred_at |-> t, kind |-> kind]

StatusAlert(source, summary, t, level, tags) ==
    [alert_id |-> build_alert_id(source, summary, t), source |-> source,
     level |-> level, created_at |-> t, tags |-> tags]

event_to_alert(event) ==
    [alert_id |-> build_alert_id(event.target, event.summary, event.occurred_at),
     source |-> event.target, level |-> event.severity,
     created_at |-> event.occurred_at, tags |-> << event.kind >>]

\* IncidentStartedPatch leaving incident_alerted out of the patch.
IncidentStartedPatch_NotMarked(state_update) == state_update

\* check_status_page, line 125: the patch of a check that emits incident_started.
IncidentStartedPatch(state_update) == Put(state_update, "incident_alerted", TRUE)

check_status_page(target, previous_state, text, t) ==
    LET content_hash == _hash_text(text)
        phase == _phase_from_text(text)
        prev_phase == Get(previous_state, "phase", "unknown")
        prev_hash == Get(previous_state, "content_hash", "")
        incident_alerted == Get(previous_state, "incident_alerted", FALSE)
        pending_since == Get(previous_state, "pending_incident_since", << >>)
        state_update == [content_hash |-> content_hash, phase |-> phase,
                         last_checked |-> << t >>]
        phase_non_operational == phase \notin {"operational", "unknown"}
        prev_non_operational == prev_phase \notin {"operational", "unknown"}
        since == IF pending_since # << >> THEN pending_since[1] ELSE t
        open_update == Put(state_update, "pending_incident_since", << since >>)
        closed_update == Put(Put(state_update, "pending_incident_since", << >>),
                             "incident_alerted", FALSE)
    IN  IF phase_non_operational
          THEN IF incident_alerted
                 THEN [events |-> IF phase # prev_phase \/ content_hash # prev_hash
                                    THEN << ChangeEvent(target, "Status update: " \o PhaseLabel(phase),
                                                        _level_for_phase(phase), t, "status_update") >>
                                    ELSE << >>,
                       state_update |-> open_update]
                 ELSE IF (t - since) >= Minutes(alert_delay_minutes)
                        THEN [events |-> << ChangeEvent(target, "Incident detected: " \o PhaseLabel(phase),
                                                        _level_for_phase(phase), t, "incident_started") >>,
                              state_update |-> IncidentStartedPatch(open_update)]
                        ELSE [events |-> << >>,
                              state_update |-> Put(open_update, "incident_alerted", FALSE)]
          ELSE [events |-> IF incident_alerted \/ prev_non_operational
                             THEN << ChangeEvent(target, "Service recovered and is operational",
                                                 "resolved", t, "incident_resolved") >>
                             ELSE << >>,
                state_update |-> closed_update]

\* BackupAlertDue without the test of backup_alert_active.
BackupAlertDue_EveryCheck(silence_elapsed, backup_alert_active) ==
    silence_elapsed >= Minutes(status_backup_alert_delay_minutes)

\* run(), lines 421-424: the condition of the backup incident alert.
BackupAlertDue(silence_elapsed, backup_alert_active) ==
    /\ silence_elapsed >= Minutes(status_backup_alert_delay_minutes)
    /\ ~backup_alert_active

\* SelectSeq(events, kind = "status_update"), each turned into an alert
\* tagged backup_signal: run(), lines 443-448.
RECURSIVE ForwardedUpdates(_)
ForwardedUpdates(events) ==
    IF events = << >> THEN << >>
    ELSE LET event == Head(events)
             update_alert == event_to_alert(event)
         IN  IF event.kind # "status_update"
               THEN ForwardedUpdates(Tail(events))
               ELSE << [update_alert EXCEPT !.tags = @ \o << "backup_signal" >>] >>
                      \o ForwardedUpdates(Tail(events))

\* BackupGate forwarding the status updates whether or not a backup alert is active.
BackupGate_ForwardsAlways(target_key, state, events, current_phase, primary_state, t) ==
    LET backup_alert_active == Get(state, "backup_alert_active", FALSE)
        silent_since == Get(state, "primary_silent_since", << >>)
    IN  IF is_backup_non_operational(current_phase)
          THEN IF is_primary_non_operational(primary_state)
                 THEN [state |-> Put(Put(state, "primary_silent_since", << >>),
                                     "backup_alert_active", backup_alert_active),
                       alerts |-> << >>]
                 ELSE LET started == IF silent_since = << >>
                                       THEN Put(state, "primary_silent_since", << t >>)
                                       ELSE state
                          since == IF silent_since = << >> THEN t ELSE silent_since[1]
                          silence_elapsed == t - since
                          due == BackupAlertDue(silence_elapsed, backup_alert_active)
                          active == backup_alert_active \/ due
                          incident == IF due
                                        THEN << StatusAlert(target_key,
                                                            "primary_silent_" \o PhaseLabel(current_phase),
                                                            t, phase_to_level(current_phase),
                                                            << "backup_signal", "primary_silent" >>) >>
                                        ELSE << >>
                          updates == ForwardedUpdates(events)
                      IN  [state |-> Put(started, "backup_alert_active", active),
                           alerts |-> incident \o updates]
          ELSE [state |-> Put(Put(state, "primary_silent_since", << >>),
                              "backup_alert_active", FALSE),
                alerts |-> IF backup_alert_active
                             THEN << StatusAlert(target_key, "backup_incident_resolved", t,
                                                 "resolved", << "backup_signal", "resolved" >>) >>
                             ELSE << >>]

\* run(), lines 399-465: primary/backup gating of a successful check.
BackupGate(target_key, state, events, current_phase, primary_state, t) ==
    LET backup_alert_active == Get(state, "backup_alert_active", FALSE)
        silent_since == Get(state, "primary_silent_since", << >>)
    IN  IF is_backup_non_operational(current_phase)
          THEN IF is_primary_non_operational(primary_state)
                 THEN [state |-> Put(Put(state, "primary_silent_since", << >>),
                                     "backup_alert_active", backup_alert_active),
                       alerts |-> << >>]
                 ELSE LET started == IF silent_since = << >>
                                       THEN Put(state, "primary_silent_since", << t >>)
                                       ELSE state
                          since == IF silent_since = << >> THEN t ELSE silent_since[1]
                          silence_elapsed == t - since
                          due == BackupAlertDue(silence_elapsed, backup_alert_active)
                          active == backup_alert_active \/ due
                          incident == IF due
                                        THEN << StatusAlert(target_key,
                                                            "primary_silent_" \o PhaseLabel(current_phase),
                                                            t, phase_to_level(current_phase),
                                                            << "backup_signal", "primary_silent" >>) >>
                                        ELSE << >>
                          updates == IF active THEN ForwardedUpdates(events) ELSE << >>
                      IN  [state |-> Put(started, "backup_alert_active", active),
                           alerts |-> incident \o updates]
          ELSE [state |-> Put(Put(state, "primary_silent_since", << >>),
                              "backup_alert_active", FALSE),
                alerts |-> IF backup_alert_active
                             THEN << StatusAlert(target_key, "backup_incident_resolved", t,
                                                 "resolved", << "backup_signal", "resolved" >>) >>
                             ELSE << >>]

\* StatusCheckOk comparing the count after the check has reset it.
StatusCheckOk_CountAfterReset(target_key, state, result, primary_state, t) ==
    LET updated == Put(Put(Put(Merge(state, result.state_update),
                               "consecutive_failures", 0),
                           "last_error", << >>),
                       "primary_state", primary_state)
        previous_failures == Get(updated, "consecutive_failures", 0)
        reachable == IF previous_failures >= unreachable_alert_after_failures
                       THEN << StatusAlert(target_key, "reachable_again", t, "resolved",
                                           << "recovery" >>) >>
                       ELSE << >>
        current_phase == Get(result.state_update, "phase", "unknown")
        gate == BackupGate(target_key, updated, result.events, current_phase, primary_state, t)
    IN  [gate EXCEPT !.state = Put(@, "unreachable_alerted", FALSE),
                     !.alerts = reachable \o @]

\* run(), lines 379-465 and 493: the iteration after check_status_page returned.
StatusCheckOk(target_key, state, result, primary_state, t) ==
    LET previous_failures == Get(state, "consecutive_failures", 0)
        reachable == IF previous_failures >= unreachable_alert_after_failures
                       THEN << StatusAlert(target_key, "reachable_again", t, "resolved",
                                           << "recovery" >>) >>
                       ELSE << >>
        updated == Put(Put(Put(Merge(state, result.state_update),
                               "consecutive_failures", 0),
                           "last_error", << >>),
                       "primary_state", primary_state)
        current_phase == Get(result.state_update, "phase", "unknown")
        gate == BackupGate(target_key, updated, result.events, current_phase, primary_state, t)
    IN  [gate EXCEPT !.state = Put(@, "unreachable_alerted", FALSE),
                     !.alerts = reachable \o @]

\* UnreachableAlertDue without the test of unreachable_alerted.
UnreachableAlertDue_EveryFailure(failures, unreachable_alerted) ==
    failures >= unreachable_alert_after_failures

\* run(), lines 472-475: the condition of the unreachable alert.
UnreachableAlertDue(failures, unreachable_alerted) ==
    /\ failures >= unreachable_alert_after_failures
    /\ ~unreachable_alerted

\* StatusCheckFailed also recording that the phase is not known.
StatusCheckFailed_ForgetsPhase(target_key, state, t) ==
    [state |-> Put(Put(Put(Put(state, "consecutive_failures",
                               Get(state, "consecutive_failures", 0) + 1),
                           "last_error", << "error" >>),
                       "last_checked", << t >>),
                   "phase", "unknown"),
     alerts |-> << >>]

\* run(), lines 466-492: the iteration when check_status_page raised.
StatusCheckFailed(target_key, state, t) ==
    LET failures == Get(state, "consecutive_failures", 0) + 1
        failed == Put(Put(Put(state, "consecutive_failures", failures),
                          "last_error", << "error" >>),
                      "last_checked", << t >>)
        due == UnreachableAlertDue(failures, Get(failed, "unreachable_alerted", FALSE))
    IN  [state |-> IF due THEN Put(failed, "unreachable_alerted", TRUE) ELSE failed,
         alerts |-> IF due
                      THEN << StatusAlert(target_key, "unreachable", t, "warning",
                                          << "unreachable" >>) >>
                      ELSE << >>]

\* What check_status_page reads of the previous check: lines 75-76.
PreviousPage(state) ==
    [phase |-> Get(state, "phase", "unknown"),
     content_hash |-> Get(state, "content_hash", "")]

Kinds(events) == { events[i].kind : i \in DOMAIN events }

Tagged(alerts, tag) == { i \in DOMAIN alerts : tag \in Range(alerts[i].tags) }

InitStatus ==
    /\ now = 0
    /\ runs = 0
    /\ QueueVarsInit
    /\ LaterVarsInit
    /\ StatusVarsInit
    /\ IdVarsInit
    /\ RunVarsInit
    /\ LoadVarsInit
    /\ t_key \in StatusTargets

\* run(), lines 364-369: the target is not due in this run.
StatusSkip ==
    /\ runs < MaxChecks
    /\ \E d \in StatusDeltas :
         /\ now' = now + d
         /\ ~should_run(Get(t_state, "last_checked", << >>), status_interval_minutes, now')
    /\ runs' = runs + 1
    /\ s_outcome' = "skipped"
    /\ s_events' = << >>
    /\ s_alerts' = << >>
    /\ h_prev_state' = PreviousPage(t_state)
    /\ h_prev_open_event' = h_open_event
    /\ h_prev_open_backup' = h_open_backup
    /\ UNCHANGED <<t_key, t_state, h_open_event, h_open_backup, h_episode_started>>
    /\ UNCHANGED <<queue_vars, id_vars, run_vars, load_vars, later_vars>>

\* run(), lines 364-378 and 466-492: the target is due and its check raises.
StatusCheckRaises ==
    /\ runs < MaxChecks
    /\ Get(t_state, "consecutive_failures", 0) < MaxFailures
    /\ \E d \in StatusDeltas :
         /\ now' = now + d
         /\ should_run(Get(t_state, "last_checked", << >>), status_interval_minutes, now')
         /\ \E out \in { StatusCheckFailed(t_key, t_state, now') } :
                /\ t_state' = out.state
                /\ s_alerts' = out.alerts
    /\ runs' = runs + 1
    /\ s_outcome' = "failed"
    /\ s_events' = << >>
    /\ h_prev_state' = PreviousPage(t_state)
    /\ h_prev_open_event' = h_open_event
    /\ h_prev_open_backup' = h_open_backup
    /\ UNCHANGED <<t_key, h_open_event, h_open_backup, h_episode_started>>
    /\ UNCHANGED <<queue_vars, id_vars, run_vars, load_vars, later_vars>>

\* run(), lines 364-465 and 493: the target is due and its check returns.
StatusCheckReturns ==
    /\ runs < MaxChecks
    /\ \E d \in StatusDeltas, text \in Pages, primary_state \in PrimaryStates :
         /\ now' = now + d
         /\ should_run(Get(t_state, "last_checked", << >>), status_interval_minutes, now')
         /\ \E result \in { check_status_page(t_key, t_state, text, now') } :
            \E out \in { StatusCheckOk(t_key, t_state, result, primary_state, now') } :
            LET kinds == Kinds(result.events)
                non_operational == result.state_update.phase \notin {"operational", "unknown"}
            IN  /\ t_state' = out.state
                /\ s_events' = result.events
                /\ s_alerts' = out.alerts
                /\ h_open_event' = IF "incident_resolved" \in kinds THEN FALSE
                                   ELSE IF "incident_started" \in kinds THEN TRUE
                                   ELSE h_open_event
                /\ h_open_backup' = IF Tagged(out.alerts, "resolved") # {} THEN FALSE
                                    ELSE IF Tagged(out.alerts, "primary_silent") # {} THEN TRUE
                                    ELSE h_open_backup
                /\ h_episode_started' =
                     IF non_operational
                       THEN h_episode_started + (IF "incident_started" \in kinds THEN 1 ELSE 0)
                       ELSE 0
    /\ runs' = runs + 1
    /\ s_outcome' = "ok"
    /\ h_prev_state' = PreviousPage(t_state)
    /\ h_prev_open_event' = h_open_event
    /\ h_prev_open_backup' = h_open_backup
    /\ UNCHANGED t_key
    /\ UNCHANGED <<queue_vars, id_vars, run_vars, load_vars, later_vars>>

NextStatus ==
    \/ StatusSkip
    \/ StatusCheckRaises
    \/ StatusCheckReturns

SpecStatus == InitStatus /\ [][NextStatus]_vars

---------------------------------------------------------------------------
(* Claims about the status loop, checked under SpecStatus.                 *)

CheckedPhase == Get(t_state, "phase", "unknown")

IncidentAlerts == Tagged(s_alerts, "primary_silent")

ResolutionAlerts == Tagged(s_alerts, "resolved")

C4_GatingIdempotent ==
    /\ h_episode_started <= 1
    /\ (s_outcome = "ok" /\ CheckedPhase \notin {"operational", "unknown"}) =>
          /\ h_episode_started = 1
          /\ ( /\ CheckedPhase = h_prev_state.phase
               /\ Get(t_state, "content_hash", "") = h_prev_state.content_hash )
             => s_events = << >>
          /\ "status_update" \in Kinds(s_events) =>
               \/ CheckedPhase # h_prev_state.phase
               \/ Get(t_state, "content_hash", "") # h_prev_state.content_hash

\* A second successful check of an unchanged non-operational page: the
\* episode's incident_started was emitted before and this check emits nothing.
C4_Witness ==
    /\ s_outcome = "ok"
    /\ CheckedPhase \notin {"operational", "unknown"}
    /\ CheckedPhase = h_prev_state.phase
    /\ Get(t_state, "content_hash", "") = h_prev_state.content_hash
    /\ h_episode_started = 1
    /\ s_events = << >>

UnreachableAlerts == Tagged(s_alerts, "unreachable")

ConsecutiveFailures(state) == Get(state, "consecutive_failures", 0)

UnreachableAlerted(state) == Get(state, "unreachable_alerted", FALSE)

\* The checks of a streak of failures generate the unreachable alert on the
\* failure that brings consecutive_failures to the threshold and on no other.
C12_AlertAtThreshold ==
    /\ Cardinality(UnreachableAlerts) <= 1
    /\ UnreachableAlerts # {} <=>
          /\ s_outcome = "failed"
          /\ ConsecutiveFailures(t_state) = unreachable_alert_after_failures
    /\ UnreachableAlerted(t_state) <=>
          ConsecutiveFailures(t_state) >= unreachable_alert_after_failures

\* A step that clears unreachable_alerted, or ends a streak of failures, is
\* a successful check; a failed check adds one to consecutive_failures.
C12_ClearedBySuccess ==
    /\ (UnreachableAlerted(t_state) /\ ~UnreachableAlerted(t_state')) => s_outcome' = "ok"
    /\ ConsecutiveFailures(t_state') < ConsecutiveFailures(t_state) => s_outcome' = "ok"
    /\ s_outcome' = "failed" =>
          ConsecutiveFailures(t_state') = ConsecutiveFailures(t_state) + 1

\* C12: within one streak of consecutive failed checks of a status target
\* exactly one unreachable alert is generated, by the check on which
\* consecutive_failures first reaches unreachable_alert_after_failures, and
\* none by the later failures of the streak; unreachable_alerted is cleared
\* only by a successful check.
C12_UnreachableOncePerStreak ==
    /\ []C12_AlertAtThreshold
    /\ [][C12_ClearedBySuccess]_vars

\* A failure after the one that generated the unreachable alert: the streak
\* is past the threshold, the flag is still set and no alert is generated.
C12_Witness ==
    /\ s_outcome = "failed"
    /\ ConsecutiveFailures(t_state) = unreachable_alert_after_failures + 1
    /\ UnreachableAlerted(t_state)
    /\ UnreachableAlerts = {}

\* The phases the claims call a non-operational backup.
BackupDownPhases == {"major_outage", "partial_outage", "degraded", "maintenance"}

PrimarySilentSince(state) == Get(state, "primary_silent_since", << >>)

BackupAlertActive(state) == Get(state, "backup_alert_active", FALSE)

\* The step is a successful check that finds the backup non-operational and
\* the primary not down.
BackupDisagrees ==
    /\ s_outcome' = "ok"
    /\ Get(t_state', "phase", "unknown") \in BackupDownPhases
    /\ Get(t_state', "primary_state", "unknown") # "down"

C13_SuccessfulCheck ==
    s_outcome' = "ok" =>
        /\ Tagged(s_alerts', "primary_silent") # {} <=>
              /\ BackupDisagrees
              /\ now' - PrimarySilentSince(t_state')[1]
                    >= Minutes(status_backup_alert_delay_minutes)
              /\ ~BackupAlertActive(t_state)
        /\ Cardinality(Tagged(s_alerts', "primary_silent")) <= 1
        /\ Tagged(s_alerts', "primary_silent") # {} => BackupAlertActive(t_state')
        /\ PrimarySilentSince(t_state') # << >> <=> BackupDisagrees
        /\ BackupDisagrees =>
              PrimarySilentSince(t_state') =
                 IF PrimarySilentSince(t_state) = << >>
                   THEN << now' >>
                   ELSE PrimarySilentSince(t_state)

C13_OtherIteration ==
    s_outcome' # "ok" =>
        /\ Tagged(s_alerts', "primary_silent") = {}
        /\ PrimarySilentSince(t_state') = PrimarySilentSince(t_state)
        /\ BackupAlertActive(t_state') = BackupAlertActive(t_state)

\* C13: a successful check generates a backup incident alert if and only if
\* the scraped phase is a non-operational one, the primary monitor does not
\* report down, now - primary_silent_since is at least
\* status_backup_alert_delay_minutes and backup_alert_active is false; the
\* alert sets backup_alert_active, so none follows until the flag is
\* cleared; primary_silent_since is set by the first successful check that
\* finds the backup non-operational and the primary not down and kept only
\* while every later successful check finds the same.
C13_BackupIncidentGate == [][C13_SuccessfulCheck /\ C13_OtherIteration]_vars

\* A successful check generates the backup incident alert after ten minutes
\* of silence of the primary.
C13_Witness ==
    /\ s_outcome = "ok"
    /\ IncidentAlerts # {}
    /\ BackupAlertActive(t_state)
    /\ CheckedPhase \in BackupDownPhases
    /\ Get(t_state, "primary_state", "unknown") # "down"
    /\ PrimarySilentSince(t_state) # << >>
    /\ now - PrimarySilentSince(t_state)[1] >= Minutes(status_backup_alert_delay_minutes)

\* The last iteration was a successful check that found the backup
\* non-operational while the primary reported down.
PrimaryConfirmsDown ==
    /\ s_outcome = "ok"
    /\ CheckedPhase \in BackupDownPhases
    /\ Get(t_state, "primary_state", "unknown") = "down"

C14_Suppressed ==
    PrimaryConfirmsDown =>
        /\ Tagged(s_alerts, "backup_signal") = {}
        /\ PrimarySilentSince(t_state) = << >>

\* With the timer reset, the successful check that next finds the backup
\* non-operational and the primary not down starts the timer at its own time
\* and generates no backup incident alert.
C14_TimerRestarts ==
    (PrimarySilentSince(t_state) = << >> /\ BackupDisagrees) =>
        /\ PrimarySilentSince(t_state') = << now' >>
        /\ Tagged(s_alerts', "primary_silent") = {}

\* C14: a successful check that finds the backup phase non-operational while
\* the primary monitor reports down generates no backup incident alert and
\* no forwarded status-update alert and resets primary_silent_since to none,
\* so the silence timer starts from zero when the primary next reports up.
C14_PrimaryDownSuppressesBackup ==
    /\ []C14_Suppressed
    /\ [][C14_TimerRestarts]_vars

\* The primary reports down during an alerted backup incident: the check
\* emits a status_update event, which is not forwarded.
C14_Witness ==
    /\ PrimaryConfirmsDown
    /\ BackupAlertActive(t_state)
    /\ "status_update" \in Kinds(s_events)
    /\ s_alerts = << >>
    /\ PrimarySilentSince(t_state) = << >>

\* The keys of a target's record that the failure branch assigns.
FailureKeys == {"consecutive_failures", "last_error", "last_checked", "unreachable_alerted"}

\* The keys of a status target's record that the checker's patch assigns.
PatchKeys == {"content_hash", "phase", "incident_alerted", "pending_incident_since"}

C15_FailedCheckFrame ==
    s_outcome' = "failed" =>
        /\ ConsecutiveFailures(t_state') = ConsecutiveFailures(t_state) + 1
        /\ Get(t_state', "last_checked", << >>) = << now' >>
        /\ Get(t_state', "last_error", << >>) # << >>
        /\ \A k \in (DOMAIN t_state \cup DOMAIN t_state') \ FailureKeys :
              /\ k \in DOMAIN t_state
              /\ k \in DOMAIN t_state'
              /\ t_state'[k] = t_state[k]
        /\ s_events' = << >>
        /\ \A i \in DOMAIN s_alerts' : s_alerts'[i].tags = << "unreachable" >>

C15_PatchOnlyOnSuccess ==
    (\E k \in PatchKeys :
        \/ (k \in DOMAIN t_state') # (k \in DOMAIN t_state)
        \/ k \in DOMAIN t_state /\ k \in DOMAIN t_state' /\ t_state'[k] # t_state[k])
        => s_outcome' = "ok"

---------------------------------------------------------------------------
(* SpecRun: what a run generates, run after run: the watchdog, the change  *)
(* and failed-check logs of the digest, the daily digest and the first-run *)
(* override.  A run is one step, from load_state to save_state; the checks *)
(* of a run are one docs target that is quiet, changed or failing.         *)

watchdog_max_silence_minutes == 60

digest_hour_local == 8

\* now.astimezone(ZoneInfo(tz_name)): Europe/Lisbon in summer time, one hour
\* ahead of UTC.
UtcOffset == 3600

ChangesLimit == 5000

FailedChecksLimit == 1000

\* The targets whose checks SpecRun runs, in sorted order.
RunTargets == << "twitterapi_changelog", "x_changelog" >>

MaxRunSteps == 3

\* The clock before the first run: 06:00 UTC, 07:00 local time.
RunStart == 21600

\* Seconds between the starts of two consecutive runs: half an hour, the
\* watchdog threshold, a day.
RunDeltas == {1800, 3600, 86400}

Day == 86400

LocalDate(t) == (t + UtcOffset) \div Day

LocalHour(t) == ((t + UtcOffset) % Day) \div 3600

\* date.isoformat(): one string per date.
IsoDate(d) == ToString(d)

\* del items[:-limit]
KeepLast(items, limit) ==
    IF Len(items) <= limit THEN items
    ELSE SubSeq(items, Len(items) - limit + 1, Len(items))

\* record_change: the entry appended to digest["changes"].
record_change(digest, event) ==
    [digest EXCEPT !.changes =
        KeepLast(Append(@, [occurred_at |-> event.occurred_at, target |-> event.target]),
                 ChangesLimit)]

\* record_failed_check: the entry appended to digest["failed_checks"].
record_failed_check(digest, target, t) ==
    [digest EXCEPT !.failed_checks =
        KeepLast(Append(@, [occurred_at |-> t, target |-> target]), FailedChecksLimit)]

\* group_target_alert for the one event of a changed docs target.
group_target_alert(target, event, t) ==
    [alert_id |-> build_alert_id(target \o "-summary", "- " \o event.summary, t),
     source |-> target, created_at |-> t, tags |-> << "summary" >>,
     body |-> << "- " \o event.summary >>]

WatchdogAlert(summary, t) ==
    [alert_id |-> build_alert_id("watchdog", summary, t), source |-> "watchdog",
     created_at |-> t, tags |-> << "watchdog" >>, body |-> << summary >>]

RunBootstrapAlert(t) ==
    [alert_id |-> build_alert_id("init", "initialized", t), source |-> "bootstrap",
     created_at |-> t, tags |-> << "bootstrap" >>, body |-> << "initialized" >>]

\* WatchdogWarningDue without the test of watchdog_alerted.
WatchdogWarningDue_EveryRun(silent_for, watchdog_alerted) ==
    silent_for >= Minutes(watchdog_max_silence_minutes)

\* run(), line 289: the condition of the watchdog warning.
WatchdogWarningDue(silent_for, watchdog_alerted) ==
    /\ silent_for >= Minutes(watchdog_max_silence_minutes)
    /\ ~watchdog_alerted

\* run(), lines 284-316: the watchdog; watchdog_alerted is read once, before
\* either test.
Watchdog(meta, t) ==
    IF meta.last_successful_run = << >>
      THEN [events |-> << >>, meta |-> meta]
      ELSE LET silent_for == t - meta.last_successful_run[1]
               watchdog_alerted == meta.watchdog_alerted
               warn == WatchdogWarningDue(silent_for, watchdog_alerted)
               recovered == /\ silent_for < Minutes(watchdog_max_silence_minutes)
                            /\ watchdog_alerted
               warned == IF warn THEN [meta EXCEPT !.watchdog_alerted = TRUE] ELSE meta
           IN  [events |-> (IF warn THEN << WatchdogAlert("silent", t) >> ELSE << >>)
                             \o (IF recovered THEN << WatchdogAlert("recovered", t) >>
                                               ELSE << >>),
                meta |-> IF recovered THEN [warned EXCEPT !.watchdog_alerted = FALSE]
                                      ELSE warned]

\* IsRecent taking every entry for recent.
IsRecent_Always(occurred_at, t) == TRUE

\* build_daily_digest, lines 23-25: the entry is not older than the cutoff.
IsRecent(occurred_at, t) == occurred_at >= t - Hours(24)

CountOf(items, target) ==
    Cardinality({ i \in DOMAIN items : items[i].target = target })

\* f"{target}: {count}" for the targets counted, in sorted order.
RECURSIVE CounterLines(_, _)
CounterLines(items, targets) ==
    IF targets = << >> THEN << >>
    ELSE LET target == Head(targets)
             count == CountOf(items, target)
         IN  (IF count > 0 THEN << target \o ": " \o ToString(count) >> ELSE << >>)
               \o CounterLines(items, Tail(targets))

\* ", ".join(lines)
RECURSIVE Join(_)
Join(lines) ==
    IF Len(lines) = 1 THEN lines[1]
    ELSE lines[1] \o ", " \o Join(Tail(lines))

AllQuietLine == "All quiet - 0 changes detected across 8 targets in the last 24h"

\* build_daily_digest; the body is the sequence of its lines.
build_daily_digest(digest, t) ==
    LET recent_changes == SelectSeq(digest.changes, LAMBDA item : IsRecent(item.occurred_at, t))
        recent_failed == SelectSeq(digest.failed_checks, LAMBDA item : IsRecent(item.occurred_at, t))
        lines == CounterLines(recent_changes, RunTargets)
        failed_lines == CounterLines(recent_failed, RunTargets)
        body == IF recent_changes = << >> /\ recent_failed = << >>
                  THEN << AllQuietLine >>
                  ELSE << "Last 24h summary:",
                          "- total changes: " \o ToString(Len(recent_changes)),
                          "- alerts sent: " \o ToString(digest.alerts_sent) >>
                       \o (IF lines # << >>
                             THEN << "- changes by target: " \o Join(lines) >> ELSE << >>)
                       \o (IF failed_lines # << >>
                             THEN << "- failed checks: " \o Join(failed_lines) >> ELSE << >>)
    IN  [alert_id |-> "daily-digest-" \o IsoDate(t \div Day), source |-> "daily_digest",
         created_at |-> t, tags |-> << "digest" >>, body |-> body]

\* DigestDue without the comparison with last_sent_date.
DigestDue_EveryRun(last_sent_date, t) == LocalHour(t) >= digest_hour_local

\* run(), lines 600-602: the condition of the daily digest.
DigestDue(last_sent_date, t) ==
    /\ \/ last_sent_date = << >>
       \/ last_sent_date[1] # IsoDate(LocalDate(t))
    /\ LocalHour(t) >= digest_hour_local

\* What the check of a run does: nothing is due, a docs target changed, or
\* the check of a docs target raised.
RunChecks ==
    { [kind |-> "quiet", target |-> "x_changelog"] } \cup
    [kind : {"changed", "failed"}, target : Range(RunTargets)]

\* run(), lines 541-596 for the one check of the run: the digest logs and the
\* alerts appended to new_alerts.
RunCheck(digest, check, t) ==
    IF check.kind = "changed"
      THEN LET event == ChangeEvent(check.target, "changed", "info", t, "changelog")
           IN  [digest |-> record_change(digest, event),
                alerts |-> << group_target_alert(check.target, event, t) >>]
    ELSE IF check.kind = "failed"
      THEN [digest |-> record_failed_check(digest, check.target, t), alerts |-> << >>]
    ELSE [digest |-> digest, alerts |-> << >>]

\* run(), lines 606-618: the first-run override of new_alerts.
NewAlerts(is_first_run, generated, t) ==
    IF is_first_run THEN << RunBootstrapAlert(t) >> ELSE generated

\* run(), lines 265-620 and 674-677, without the delivery loops: sent is the
\* number of deliver_alert calls of the run that succeeded.
RunResult(targets, meta, digest, check, sent, t) ==
    LET is_first_run == targets = {}
        watchdog == Watchdog(meta, t)
        checked == RunCheck(digest, check, t)
        due == DigestDue(checked.digest.last_sent_date, t)
        daily == IF due THEN << build_daily_digest(checked.digest, t) >> ELSE << >>
        marked == IF due
                    THEN [checked.digest EXCEPT !.last_sent_date = << IsoDate(LocalDate(t)) >>]
                    ELSE checked.digest
        generated == checked.alerts \o daily
        new_alerts == NewAlerts(is_first_run, generated, t)
        handed == watchdog.events \o new_alerts
    IN  [meta |-> [watchdog.meta EXCEPT !.last_successful_run = << t >>],
         digest |-> [marked EXCEPT !.alerts_sent = @ + (IF sent THEN Len(handed) ELSE 0)],
         out |-> [first_run |-> is_first_run, watchdog_events |-> watchdog.events,
                  generated |-> generated, new_alerts |-> new_alerts,
                  all_alerts |-> handed, digest |-> daily]]

InitRun ==
    /\ now = RunStart
    /\ runs = 0
    /\ QueueVarsInit
    /\ LaterVarsInit
    /\ StatusVarsInit
    /\ t_key = "x_status"
    /\ IdVarsInit
    /\ RunVarsInit
    /\ LoadVarsInit

\* run(), from load_state to save_state.
RunOnce ==
    /\ runs < MaxRunSteps
    /\ \E d \in RunDeltas, check \in RunChecks, sent \in BOOLEAN :
         /\ now' = now + d
         /\ \E result \in { RunResult(g_targets, g_meta, g_digest, check, sent, now') } :
              /\ g_meta' = result.meta
              /\ g_digest' = result.digest
              /\ g_out' = result.out
              /\ h_digest_dates' = IF result.out.digest # << >>
                                     THEN Append(h_digest_dates, LocalDate(now'))
                                     ELSE h_digest_dates
    /\ g_targets' = TargetKeys
    /\ runs' = runs + 1
    /\ UNCHANGED <<queue_vars, status_vars, id_vars, load_vars, later_vars>>

\* load_state, lines 52-53: the state file holds something that is not a map
\* under "targets" (or an empty map), while its digest and meta are intact.
TargetsLost ==
    /\ g_targets # {}
    /\ g_targets' = {}
    /\ UNCHANGED <<now, runs, g_meta, g_digest, g_out, h_digest_dates>>
    /\ UNCHANGED <<queue_vars, status_vars, id_vars, load_vars, later_vars>>

NextRun ==
    \/ RunOnce
    \/ TargetsLost

SpecRun == InitRun /\ [][NextRun]_vars

---------------------------------------------------------------------------
(* Claims about the watchdog, the digest and the first run, checked under  *)
(* SpecRun.                                                                *)

\* The step is a run.
IsRun == runs' = runs + 1

DigestGenerated == g_out.digest # << >>

RECURSIVE StrictlyIncreasing(_)
StrictlyIncreasing(dates) ==
    \/ Len(dates) <= 1
    \/ dates[1] < dates[2] /\ StrictlyIncreasing(Tail(dates))

C16_DigestStep ==
    IsRun =>
        /\ g_out'.digest # << >> <=>
              /\ LocalHour(now') >= digest_hour_local
              /\ LocalDate(now') \notin Range(h_digest_dates)
        /\ g_out'.digest # << >> =>
              g_digest'.last_sent_date = << IsoDate(LocalDate(now')) >>
        /\ Len(g_out'.digest) <= 1

\* C16: over the runs of a non-decreasing clock at most one digest alert is
\* generated per local calendar date; a run generates it exactly when its
\* local hour is at least digest_hour_local and no earlier run of that local
\* date generated it, which makes it the first such run of the date; after
\* that run last_sent_date is that local date.
C16_DigestOncePerLocalDate ==
    /\ []StrictlyIncreasing(h_digest_dates)
    /\ [][C16_DigestStep]_vars

\* A run after the digest hour of a date whose digest was generated by an
\* earlier run: it generates none.
C16_Witness ==
    /\ runs >= 2
    /\ ~DigestGenerated
    /\ LocalHour(now) >= digest_hour_local
    /\ LocalDate(now) \in Range(h_digest_dates)
    /\ g_digest.last_sent_date = << IsoDate(LocalDate(now)) >>

\* The entries of a log that are at most 24 hours older than t.
RecentEntries(items, t) == { i \in DOMAIN items : items[i].occurred_at >= t - 24 * 3600 }

RecentCount(items, t, target) ==
    Cardinality({ i \in RecentEntries(items, t) : items[i].target = target })

\* The line that lists the counts n1 and n2 of the two targets, none when
\* both are zero.
CountsLine(prefix, n1, n2) ==
    LET part1 == RunTargets[1] \o ": " \o ToString(n1)
        part2 == RunTargets[2] \o ": " \o ToString(n2)
    IN  IF n1 > 0 /\ n2 > 0 THEN << prefix \o part1 \o ", " \o part2 >>
        ELSE IF n1 > 0 THEN << prefix \o part1 >>
        ELSE IF n2 > 0 THEN << prefix \o part2 >>
        ELSE << >>

\* C17: the digest a run generates summarises exactly the change and
\* failed-check entries of the last 24 hours: its body is the "All quiet"
\* line if and only if there is no such entry of either kind; otherwise it
\* gives the number of recent changes and, per target, the number of recent
\* changes and of recent failed checks; older entries do not appear in it.
C17_DigestSummarisesLastDay ==
    DigestGenerated =>
        LET alert == g_out.digest[1]
            t == alert.created_at
            body == alert.body
            quiet == /\ RecentEntries(g_digest.changes, t) = {}
                     /\ RecentEntries(g_digest.failed_checks, t) = {}
        IN  /\ AllQuietLine \in Range(body) <=> quiet
            /\ quiet => body = << AllQuietLine >>
            /\ ~quiet =>
                 /\ body[1] = "Last 24h summary:"
                 /\ body[2] = "- total changes: "
                                \o ToString(Cardinality(RecentEntries(g_digest.changes, t)))
                 /\ SubSeq(body, 4, Len(body)) =
                      CountsLine("- changes by target: ",
                                 RecentCount(g_digest.changes, t, RunTargets[1]),
                                 RecentCount(g_digest.changes, t, RunTargets[2]))
                      \o CountsLine("- failed checks: ",
                                    RecentCount(g_digest.failed_checks, t, RunTargets[1]),
                                    RecentCount(g_digest.failed_checks, t, RunTargets[2]))

\* A digest built while the change log holds an entry older than 24 hours
\* and a recent one, and the failed-check log a recent one.
C17_Witness ==
    /\ DigestGenerated
    /\ \E i \in DOMAIN g_digest.changes :
         i \notin RecentEntries(g_digest.changes, g_out.digest[1].created_at)
    /\ RecentEntries(g_digest.changes, g_out.digest[1].created_at) # {}
    /\ g_out.digest[1].body[2] = "- total changes: 1"

WatchdogEvents(summary) ==
    { i \in DOMAIN g_out.watchdog_events : g_out.watchdog_events[i].body = << summary >> }

C18_WatchdogStep ==
    IF IsRun
      THEN LET last == g_meta.last_successful_run
               warned == \E i \in DOMAIN g_out'.watchdog_events :
                            g_out'.watchdog_events[i].body = << "silent" >>
               resolved == \E i \in DOMAIN g_out'.watchdog_events :
                            g_out'.watchdog_events[i].body = << "recovered" >>
           IN  /\ warned <=>
                     /\ last # << >>
                     /\ now' - last[1] >= Minutes(watchdog_max_silence_minutes)
                     /\ ~g_meta.watchdog_alerted
               /\ resolved <=>
                     /\ last # << >>
                     /\ now' - last[1] < Minutes(watchdog_max_silence_minutes)
                     /\ g_meta.watchdog_alerted
               /\ warned => g_meta'.watchdog_alerted
               /\ resolved => ~g_meta'.watchdog_alerted
               /\ ~(warned /\ resolved)
               /\ Len(g_out'.watchdog_events) <= 1
               /\ g_meta'.watchdog_alerted # g_meta.watchdog_alerted => (warned \/ resolved)
      ELSE g_meta'.watchdog_alerted = g_meta.watchdog_alerted

\* C18: a run generates the watchdog warning exactly when
\* last_successful_run is set, now - last_successful_run is at least
\* watchdog_max_silence_minutes and watchdog_alerted is false, and sets the
\* flag; it generates the resolution exactly when the flag is set and the
\* silence is below the threshold, and clears the flag; the flag changes in
\* no other way, so warnings and resolutions alternate starting with a
\* warning, no run generates both and none repeats the warning while the
\* flag is set.
C18_WatchdogEdgeTriggered == [][C18_WatchdogStep]_vars

\* A run generates the watchdog resolution and clears the flag.
C18_Witness ==
    /\ WatchdogEvents("recovered") # {}
    /\ ~g_meta.watchdog_alerted
    /\ g_meta.last_successful_run = << now >>

---------------------------------------------------------------------------
(* SpecLoad: load_state and the first statements of run() on a state file  *)
(* that is missing, blank, not JSON, or any JSON document.  A JSON value   *)
(* carries its type; a map is a function from its keys to JSON values.     *)

EmptyDict == [x \in {} |-> 0]

JNull == [type |-> "null"]

JNum(n) == [type |-> "number", value |-> n]

JStr(text) == [type |-> "string", value |-> text]

JList(items) == [type |-> "list", items |-> items]

JObj(fields) == [type |-> "object", fields |-> fields]

\* The strings datetime.fromisoformat accepts.
IsoStrings == {"2026-01-01T00:00:00+00:00"}

DefaultDigest ==
    JObj(("changes" :> JList(<< >>)) @@ ("alerts_sent" :> JNum(0))
         @@ ("failed_checks" :> JList(<< >>)) @@ ("last_sent_date" :> JNull))

DefaultMeta ==
    JObj(("last_successful_run" :> JNull) @@ ("watchdog_alerted" :> [type |-> "false"])
         @@ ("sent_alert_ids" :> JList(<< >>)) @@ ("deployed_version" :> JNull))

default_state ==
    ("version" :> JNum(1)) @@ ("last_updated" :> JStr("now")) @@ ("targets" :> JObj(EmptyDict))
    @@ ("digest" :> DefaultDigest) @@ ("meta" :> DefaultMeta)

\* What a state file may hold under "targets": nothing, null, a list, an
\* empty map, a map with a record.
TargetsOptions ==
    { << >>, << JNull >>, << JList(<< >>) >>, << JObj(EmptyDict) >>,
      << JObj("x_status" :> JObj("phase" :> JStr("operational"))) >> }

\* Under "digest": nothing, null, an empty map, a well-formed map, a map
\* whose changes is a number.
DigestOptions ==
    { << >>, << JNull >>, << JObj(EmptyDict) >>, << DefaultDigest >>,
      << JObj("changes" :> JNum(5)) >> }

\* Under "meta": nothing, a list, an empty map, a well-formed map, a map whose
\* sent_alert_ids is not a list, and maps whose last_successful_run is a
\* time, a string that is no time, or a number.
MetaOptions ==
    { << >>, << JList(<< >>) >>, << JObj(EmptyDict) >>, << DefaultMeta >>,
      << JObj("sent_alert_ids" :> JStr("a,b")) >>,
      << JObj("last_successful_run" :> JStr("2026-01-01T00:00:00+00:00")) >>,
      << JObj("last_successful_run" :> JStr("yesterday")) >>,
      << JObj("last_successful_run" :> JNum(1767225600)) >> }

Opt(k, option) == IF option = << >> THEN EmptyDict ELSE k :> option[1]

JsonDocs ==
    { JNull, JNum(1), JStr("state"), JList(<< >>) } \cup
    { JObj(Opt("targets", t) @@ Opt("digest", d) @@ Opt("meta", m)) :
        t \in TargetsOptions, d \in DigestOptions, m \in MetaOptions }

StateFiles ==
    { [kind |-> "missing"], [kind |-> "blank"], [kind |-> "invalid"] } \cup
    { [kind |-> "json", value |-> v] : v \in JsonDocs }

IsDict(state, k) == k \in DOMAIN state /\ state[k].type = "object"

\* StateStore.load_state: the document it returns, or that it raises;
\* json.loads raises on a text that is not JSON.
load_state(file) ==
    IF file.kind \in {"missing", "blank"}
      THEN [raised |-> FALSE, state |-> default_state]
    ELSE IF file.kind = "invalid"
      THEN [raised |-> TRUE, state |-> EmptyDict]
    ELSE IF file.value.type # "object"
      THEN [raised |-> FALSE, state |-> default_state]
    ELSE LET merged == Merge(default_state, file.value.fields)
             with_targets == IF IsDict(merged, "targets") THEN merged
                             ELSE Put(merged, "targets", JObj(EmptyDict))
             with_digest == IF IsDict(with_targets, "digest") THEN with_targets
                            ELSE Put(with_targets, "digest", DefaultDigest)
             with_meta == IF IsDict(with_digest, "meta") THEN with_digest
                          ELSE Put(with_digest, "meta", DefaultMeta)
         IN  [raised |-> FALSE, state |-> with_meta]

\* dict.setdefault
SetDefault(d, k, v) == IF k \in DOMAIN d THEN d ELSE Put(d, k, v)

\* parse_iso raises: the value is neither None, nor "", nor a string that
\* datetime.fromisoformat accepts.
ParseIsoRaises(value) ==
    /\ value.type # "null"
    /\ ~(value.type = "string" /\ value.value = "")
    /\ ~(value.type = "string" /\ value.value \in IsoStrings)

\* run(), lines 269-285: the defaults set on the loaded document, up to the
\* parse of meta.last_successful_run.
start_run(state) ==
    LET digest == SetDefault(SetDefault(SetDefault(SetDefault(state["digest"].fields,
                      "changes", JList(<< >>)), "alerts_sent", JNum(0)),
                      "failed_checks", JList(<< >>)), "last_sent_date", JNull)
        meta0 == SetDefault(state["meta"].fields, "sent_alert_ids", JList(<< >>))
        meta == IF meta0["sent_alert_ids"].type # "list"
                  THEN Put(meta0, "sent_alert_ids", JList(<< >>)) ELSE meta0
        started == Put(Put(state, "digest", JObj(digest)), "meta", JObj(meta))
    IN  [raised |-> ParseIsoRaises(Get(meta, "last_successful_run", JNull)),
         state |-> started]

InitLoad ==
    /\ now = 0
    /\ runs = 0
    /\ QueueVarsInit
    /\ LaterVarsInit
    /\ StatusVarsInit
    /\ t_key = "x_status"
    /\ IdVarsInit
    /\ RunVarsInit
    /\ l_file \in StateFiles
    /\ l_step = "file"
    /\ l_state = << >>

\* run(), line 266: state = state_store.load_state()
LoadState ==
    /\ l_step = "file"
    /\ \E loaded \in { load_state(l_file) } :
         /\ l_step' = IF loaded.raised THEN "failed" ELSE "loaded"
         /\ l_state' = IF loaded.raised THEN << >> ELSE << loaded.state >>
    /\ UNCHANGED <<now, runs, l_file, queue_vars, status_vars, id_vars, run_vars, later_vars>>

\* run(), lines 269-285.
StartRun ==
    /\ l_step = "loaded"
    /\ \E started \in { start_run(l_state[1]) } :
         /\ l_step' = IF started.raised THEN "failed" ELSE "started"
         /\ l_state' = << started.state >>
    /\ UNCHANGED <<now, runs, l_file, queue_vars, status_vars, id_vars, run_vars, later_vars>>

NextLoad ==
    \/ LoadState
    \/ StartRun

SpecLoad == InitLoad /\ [][NextLoad]_vars

HasDefaultedShape(state) ==
    /\ IsDict(state, "targets")
    /\ IsDict(state, "digest")
    /\ IsDict(state, "meta")
    /\ {"changes", "alerts_sent", "failed_checks", "last_sent_date"}
          \subseteq DOMAIN state["digest"].fields
    /\ "sent_alert_ids" \in DOMAIN state["meta"].fields
    /\ state["meta"].fields["sent_alert_ids"].type = "list"

\* C20: loading the persisted state never fails the run: whatever the state
\* file holds, load_state returns a document whose targets, digest and meta
\* are maps, the run fills in the defaulted fields and goes on.
C20_LoadNeverFails ==
    /\ l_step # "failed"
    /\ l_step = "loaded" =>
         /\ IsDict(l_state[1], "targets")
         /\ IsDict(l_state[1], "digest")
         /\ IsDict(l_state[1], "meta")
    /\ l_step = "started" => HasDefaultedShape(l_state[1])

---------------------------------------------------------------------------
(* SpecAlertId: build_alert_id applied to two argument triples.            *)

\* Sources and summaries with and without the "|" that build_alert_id puts
\* between the parts of the key.
IdSources == {"x_status", "a", "a|b"}

IdSummaries == {"unreachable", "c", "b|c"}

\* Two instants of one minute and the first instant of the next.
IdTimestamps == {0, 59, 60}

IdArguments == [source : IdSources, summary : IdSummaries, timestamp : IdTimestamps]

InitAlertId ==
    /\ now = 0
    /\ runs = 0
    /\ QueueVarsInit
    /\ LaterVarsInit
    /\ StatusVarsInit
    /\ t_key = "x_status"
    /\ id_first \in IdArguments
    /\ id_second \in IdArguments
    /\ id_result = << >>
    /\ RunVarsInit
    /\ LoadVarsInit

\* build_alert_id, lines 82-84, called once with each triple.
BuildAlertIds ==
    /\ id_result = << >>
    /\ id_result' =
         << [key |-> AlertKey(id_first.source, id_first.summary, id_first.timestamp),
             alert_id |-> build_alert_id(id_first.source, id_first.summary, id_first.timestamp)],
            [key |-> AlertKey(id_second.source, id_second.summary, id_second.timestamp),
             alert_id |-> build_alert_id(id_second.source, id_second.summary, id_second.timestamp)] >>
    /\ UNCHANGED <<now, runs, queue_vars, status_vars, run_vars, load_vars, later_vars, id_first, id_second>>

NextAlertId == BuildAlertIds

SpecAlertId == InitAlertId /\ [][NextAlertId]_vars

SameIdArguments ==
    /\ id_first.source = id_second.source
    /\ id_first.summary = id_second.summary
    /\ TruncateToMinute(id_first.timestamp) = TruncateToMinute(id_second.timestamp)

---------------------------------------------------------------------------
(* The checkers of the tweets and changelog targets (monitors/tweets.py,   *)
(* monitors/changelog.py).  A fetched tweet is its id as the API gave it   *)
(* (no id, or a text) and its text; a fetched changelog is the list of its *)
(* candidate lines.                                                        *)

tweets_interval_minutes == 30

docs_interval_minutes == 30

\* Tweet ids are the numbers up to MaxTweetId.
MaxTweetId == 3

\* changelog.py, lines 60 and 82: entry_ids[:200].
EntryIdsLimit == 200

\* changelog.py, line 67: new_entries[:20].
NewEntriesLimit == 20

\* tweet_accounts of run(): the account of each tweets target.
tweet_accounts == [api_tweets |-> "API", xdevelopers_tweets |-> "XDevelopers"]

\* docs_targets of run() whose checker is check_changelog.
ChangelogTargets == {"x_changelog", "twitterapi_changelog"}

\* items[:limit]
Take(items, limit) == SubSeq(items, 1, IF Len(items) <= limit THEN Len(items) ELSE limit)

\* str(n) of a tweet id.
TweetIdText(n) == ToString(n)

\* _tweet_id: no id for None and for a text that is not all digits, else the
\* number the text spells.
_tweet_id(value) ==
    IF value = << >> THEN << >>
    ELSE IF \E n \in 0..MaxTweetId : TweetIdText(n) = value[1]
      THEN << CHOOSE n \in 0..MaxTweetId : TweetIdText(n) = value[1] >>
      ELSE << >>

\* The sort key of line 51: _tweet_id(...) or 0.
TweetSortKey(item) ==
    LET id == _tweet_id(item.id) IN IF id = << >> THEN 0 ELSE id[1]

\* list.sort is stable: an item goes behind the items whose key is not larger.
RECURSIVE InsertTweet(_, _)
InsertTweet(sorted, item) ==
    IF sorted = << >> THEN << item >>
    ELSE IF TweetSortKey(sorted[Len(sorted)]) <= TweetSortKey(item)
      THEN Append(sorted, item)
      ELSE Append(InsertTweet(SubSeq(sorted, 1, Len(sorted) - 1), item), sorted[Len(sorted)])

RECURSIVE SortTweets(_)
SortTweets(items) ==
    IF items = << >> THEN << >>
    ELSE InsertTweet(SortTweets(SubSeq(items, 1, Len(items) - 1)), items[Len(items)])

\* The event of lines 69-79 for a tweet.
TweetEvent(target, account, item, tweet_id, t) ==
    [target |-> target, summary |-> "New tweet from @" \o account \o ": " \o item.text,
     severity |-> "info", occurred_at |-> t, kind |-> "new_tweet", tweet_id |-> tweet_id]

\* A tweet is reported when its id is larger than the stored one or equal to it.
IsNewTweet_OrEqual(tweet_id, previous_last) == tweet_id >= previous_last

\* tweets.py, line 65, negated: the tweet is newer than the stored cursor.
IsNewTweet(tweet_id, previous_last) == tweet_id > previous_last

\* The loop of lines 57-79 over the sorted tweets.
RECURSIVE TweetLoop(_, _, _, _, _, _, _)
TweetLoop(target, account, items, previous_last, current_last, new_events, t) ==
    IF items = << >> THEN [current_last |-> current_last, new_events |-> new_events]
    ELSE LET item == Head(items)
             tweet_id == _tweet_id(item.id)
         IN  IF tweet_id = << >>
               THEN TweetLoop(target, account, Tail(items), previous_last, current_last,
                              new_events, t)
               ELSE LET last == IF current_last = << >> \/ tweet_id[1] > current_last[1]
                                  THEN tweet_id ELSE current_last
                        events == IF previous_last # << >>
                                     /\ IsNewTweet(tweet_id[1], previous_last[1])
                                    THEN Append(new_events,
                                                TweetEvent(target, account, item, tweet_id[1], t))
                                    ELSE new_events
                    IN  TweetLoop(target, account, Tail(items), previous_last, last, events, t)

check_account_tweets(target, account, previous_state, payload, t) ==
    LET tweets == SortTweets(payload)
        previous_last == _tweet_id(IF "last_tweet_id" \in DOMAIN previous_state
                                     THEN << previous_state["last_tweet_id"] >> ELSE << >>)
        done == TweetLoop(target, account, tweets, previous_last, previous_last, << >>, t)
        state_update == [last_checked |-> << t >>]
    IN  [events |-> done.new_events,
         state_update |-> IF done.current_last # << >>
                            THEN Put(state_update, "last_tweet_id",
                                     TweetIdText(done.current_last[1]))
                            ELSE state_update]

\* hashlib.sha256(line).hexdigest(), idealised as collision free.
_line_id(line) == << "sha256", line >>

check_changelog(target, previous_state, entries, t) ==
    LET entry_ids == [i \in DOMAIN entries |-> _line_id(entries[i])]
        previous_ids == Get(previous_state, "entry_ids", << >>)
        state_update == [entry_ids |-> Take(entry_ids, EntryIdsLimit), last_checked |-> << t >>]
        seen == Range(previous_ids)
        new_entries == Take(SelectSeq(entries, LAMBDA entry : _line_id(entry) \notin seen),
                            NewEntriesLimit)
    IN  IF previous_ids = << >>
          THEN [events |-> << >>, state_update |-> state_update]
          ELSE [events |-> [i \in DOMAIN new_entries |->
                              ChangeEvent(target, new_entries[i], "info", t, "changelog_entry")],
                state_update |-> state_update]

---------------------------------------------------------------------------
(* SpecChecks: the three loops of run() over the targets, for one target   *)
(* of each loop, run after run.  It follows the targets' records and the   *)
(* digest logs; the alerts the loops append to new_alerts are followed by  *)
(* SpecStatus and SpecRun.                                                 *)

\* The targets SpecChecks checks, in the order of run()'s loops.
ChecksTargets == << "x_status", "api_tweets", "x_changelog" >>

MaxChecksRuns == 2

\* Seconds between the starts of two consecutive runs.
ChecksDeltas == {120, 300, 1800}

\* The pages a status check may scrape.
ChecksPages == { {"all systems operational"}, {"major outage"} }

\* The tweets a tweets check may fetch.
ChecksTweets == { << >>, << [id |-> << "2" >>, text |-> "hello"] >> }

\* The candidate lines a changelog check may extract.
ChecksEntries == { << "v1" >>, << "v2", "v1" >> }

\* What a checker may raise.
ExceptionClasses == {"FetchError", "ValueError"}

\* An except clause that catches FetchError only.
except_Exception_FetchErrorOnly(exc) == exc = "FetchError"

\* run(), lines 466, 522 and 591: except Exception catches what a checker raises.
except_Exception(exc) == exc \in ExceptionClasses

\* target_state: the target's record, an empty dict when it has none.
target_state(targets, target_key) == Get(targets, target_key, EmptyDict)

interval_minutes(target_key) ==
    IF target_key \in StatusTargets THEN status_interval_minutes
    ELSE IF target_key \in DOMAIN tweet_accounts THEN tweets_interval_minutes
    ELSE docs_interval_minutes

\* for event in result.events: record_change(state, event)
RECURSIVE RecordChanges(_, _)
RecordChanges(digest, events) ==
    IF events = << >> THEN digest
    ELSE RecordChanges(record_change(digest, Head(events)), Tail(events))

\* run(), lines 516-518 and 584-586: the record after a tweets or docs check returned.
CheckOk(state, result) ==
    Put(Put(Merge(state, result.state_update), "consecutive_failures", 0),
        "last_error", << >>)

\* CheckFailed leaving last_checked as the last successful check set it.
CheckFailed_KeepsLastChecked(state, t) ==
    Put(Put(state, "consecutive_failures", Get(state, "consecutive_failures", 0) + 1),
        "last_error", << "error" >>)

\* run(), lines 523-526 and 592-595: the record after a tweets or docs check raised.
CheckFailed(state, t) ==
    Put(Put(Put(state, "consecutive_failures", Get(state, "consecutive_failures", 0) + 1),
            "last_error", << "error" >>),
        "last_checked", << t >>)

\* The keys of a record that differ between two versions of it.
WrittenKeys(before, after) ==
    { k \in DOMAIN after : k \notin DOMAIN before \/ after[k] # before[k] }

\* What an iteration whose checker returned did: the record, the digest, and
\* the keys the checker's patch and the loop body wrote.
Returned(state, digest, result, after) ==
    [state |-> after, digest |-> RecordChanges(digest, result.events), raised |-> FALSE,
     checker_keys |-> DOMAIN result.state_update,
     orchestrator_keys |-> WrittenKeys(Merge(state, result.state_update), after)]

\* What an iteration whose checker raised did.
Raised(state, digest, target_key, after, t) ==
    [state |-> after, digest |-> record_failed_check(digest, target_key, t), raised |-> TRUE,
     checker_keys |-> {},
     orchestrator_keys |-> WrittenKeys(state, after)]

InitChecks ==
    /\ now = 0
    /\ runs = 0
    /\ QueueVarsInit
    /\ StatusVarsInit
    /\ t_key = "x_status"
    /\ IdVarsInit
    /\ RunVarsInit
    /\ LoadVarsInit
    /\ LaterVarsInit

\* run(), lines 269 and 346-361: the run starts and fetches the primary
\* monitor states, which may fail.
ChecksBegin ==
    /\ c_pc = "idle"
    /\ runs < MaxChecksRuns
    /\ \E d \in ChecksDeltas, fetched \in {"raise", "down"} :
         /\ now' = now + d
         /\ c_primary' = IF fetched = "raise" THEN "unknown" ELSE fetched
         /\ c_digest' = IF fetched = "raise"
                          THEN record_failed_check(c_digest, "betterstack_primary", now')
                          ELSE c_digest
    /\ runs' = runs + 1
    /\ c_pc' = "checks"
    /\ c_i' = 1
    /\ h_c_start' = [targets |-> c_targets, failed_checks |-> c_digest.failed_checks]
    /\ h_c_invoked' = {}
    /\ h_c_raised' = {}
    /\ h_c_writes' = {}
    /\ UNCHANGED <<c_targets, h_c_last_invoked>>
    /\ UNCHANGED other_than_checks

\* The target is not due: continue.
ChecksSkip(target_key, state) ==
    /\ c_targets' = Put(c_targets, target_key, state)
    /\ c_pc' = IF c_i = Len(ChecksTargets) THEN "persist" ELSE "checks"
    /\ c_i' = c_i + 1
    /\ UNCHANGED <<c_digest, h_c_invoked, h_c_raised, h_c_writes, h_c_last_invoked>>

\* The checker was invoked and the iteration ended as done says.
ChecksInvoked(target_key, done) ==
    /\ c_targets' = Put(c_targets, target_key, done.state)
    /\ c_digest' = done.digest
    /\ c_pc' = IF c_i = Len(ChecksTargets) THEN "persist" ELSE "checks"
    /\ c_i' = c_i + 1
    /\ h_c_invoked' = h_c_invoked \cup {target_key}
    /\ h_c_raised' = IF done.raised THEN h_c_raised \cup {target_key} ELSE h_c_raised
    /\ h_c_writes' = h_c_writes
         \cup { [writer |-> "checker", target |-> target_key, key |-> k] :
                  k \in done.checker_keys }
         \cup { [writer |-> "orchestrator", target |-> target_key, key |-> k] :
                  k \in done.orchestrator_keys }
    /\ h_c_last_invoked' = Put(h_c_last_invoked, target_key, now)

\* The checker raised something no except clause of the loop catches: run() raises.
ChecksAborted(target_key) ==
    /\ c_pc' = "aborted"
    /\ h_c_invoked' = h_c_invoked \cup {target_key}
    /\ h_c_raised' = h_c_raised \cup {target_key}
    /\ UNCHANGED <<c_i, c_targets, c_digest, h_c_writes, h_c_last_invoked>>

\* run(), lines 363-493: one iteration of the loop over status_checks.
ChecksStatus ==
    /\ c_pc = "checks"
    /\ c_i <= Len(ChecksTargets)
    /\ ChecksTargets[c_i] \in StatusTargets
    /\ LET target_key == ChecksTargets[c_i]
           state == target_state(c_targets, target_key)
       IN  IF ~should_run(Get(state, "last_checked", << >>), status_interval_minutes, now)
             THEN ChecksSkip(target_key, state)
             ELSE \/ \E exc \in ExceptionClasses :
                       IF except_Exception(exc)
                         THEN ChecksInvoked(target_key,
                                Raised(state, c_digest, target_key,
                                       StatusCheckFailed(target_key, state, now).state, now))
                         ELSE ChecksAborted(target_key)
                  \/ \E text \in ChecksPages :
                     \E result \in { check_status_page(target_key, state, text, now) } :
                       ChecksInvoked(target_key,
                         Returned(state, c_digest, result,
                                  StatusCheckOk(target_key, state, result, c_primary, now).state))
    /\ UNCHANGED <<now, runs, c_primary, h_c_start>>
    /\ UNCHANGED other_than_checks

\* run(), lines 500-527: one iteration of the loop over tweet_accounts.
ChecksTweetsTarget ==
    /\ c_pc = "checks"
    /\ c_i <= Len(ChecksTargets)
    /\ ChecksTargets[c_i] \in DOMAIN tweet_accounts
    /\ LET target_key == ChecksTargets[c_i]
           state == target_state(c_targets, target_key)
       IN  IF ~should_run(Get(state, "last_checked", << >>), tweets_interval_minutes, now)
             THEN ChecksSkip(target_key, state)
             ELSE \/ \E exc \in ExceptionClasses :
                       IF except_Exception(exc)
                         THEN ChecksInvoked(target_key,
                                Raised(state, c_digest, target_key, CheckFailed(state, now), now))
                         ELSE ChecksAborted(target_key)
                  \/ \E payload \in ChecksTweets :
                     \E result \in { check_account_tweets(target_key, tweet_accounts[target_key],
                                                          state, payload, now) } :
                       ChecksInvoked(target_key,
                         Returned(state, c_digest, result, CheckOk(state, result)))
    /\ UNCHANGED <<now, runs, c_primary, h_c_start>>
    /\ UNCHANGED other_than_checks

\* run(), lines 541-596: one iteration of the loop over docs_targets, for a
\* target whose checker is check_changelog.
ChecksDocs ==
    /\ c_pc = "checks"
    /\ c_i <= Len(ChecksTargets)
    /\ ChecksTargets[c_i] \in ChangelogTargets
    /\ LET target_key == ChecksTargets[c_i]
           state == target_state(c_targets, target_key)
       IN  IF ~should_run(Get(state, "last_checked", << >>), docs_interval_minutes, now)
             THEN ChecksSkip(target_key, state)
             ELSE \/ \E exc \in ExceptionClasses :
                       IF except_Exception(exc)
                         THEN ChecksInvoked(target_key,
                                Raised(state, c_digest, target_key, CheckFailed(state, now), now))
                         ELSE ChecksAborted(target_key)
                  \/ \E entries \in ChecksEntries :
                     \E result \in { check_changelog(target_key, state, entries, now) } :
                       ChecksInvoked(target_key,
                         Returned(state, c_digest, result, CheckOk(state, result)))
    /\ UNCHANGED <<now, runs, c_primary, h_c_start>>
    /\ UNCHANGED other_than_checks

\* run(), lines 674-680: the loops are over, the state is saved and run() returns.
ChecksPersist ==
    /\ c_pc = "persist"
    /\ c_pc' = "idle"
    /\ UNCHANGED <<now, runs, c_i, c_targets, c_digest, c_primary, h_c_start, h_c_invoked,
                   h_c_raised, h_c_writes, h_c_last_invoked>>
    /\ UNCHANGED other_than_checks

NextChecks ==
    \/ ChecksBegin
    \/ ChecksStatus
    \/ ChecksTweetsTarget
    \/ ChecksDocs
    \/ ChecksPersist

SpecChecks == InitChecks /\ [][NextChecks]_vars


---------------------------------------------------------------------------
(* Claims about the loops over the targets, checked under SpecChecks.      *)

\* The target's record when the run started.
StartRecord(target_key) == target_state(h_c_start.targets, target_key)

\* The target's interval had elapsed when the run started.
DueAtStart(target_key) ==
    should_run(Get(StartRecord(target_key), "last_checked", << >>),
               interval_minutes(target_key), now)

\* The entries the run has appended to digest.failed_checks.
AppendedFailedChecks ==
    SubSeq(c_digest.failed_checks, Len(h_c_start.failed_checks) + 1,
           Len(c_digest.failed_checks))

\* C21: whatever subset of the targets' checkers raises in a run, the run is
\* not aborted and goes on to the persist step, where every target that was
\* due has had its checker invoked, and every target whose checker raised has
\* consecutive_failures one above its value at the start of the run, last_error
\* set, and exactly one entry of its own appended to digest.failed_checks.
C21_FailuresIsolated ==
    /\ c_pc # "aborted"
    /\ c_pc = "checks" => c_i <= Len(ChecksTargets)
    /\ c_pc = "persist" =>
         /\ \A k \in Range(ChecksTargets) : DueAtStart(k) => k \in h_c_invoked
         /\ \A k \in h_c_raised :
              /\ c_targets[k]["consecutive_failures"]
                   = Get(StartRecord(k), "consecutive_failures", 0) + 1
              /\ c_targets[k]["last_error"] # << >>
              /\ CountOf(AppendedFailedChecks, k) = 1

\* A run reached the persist step after the checker of x_status raised and
\* the checker of api_tweets, due as well, was invoked and returned.
C21_Witness ==
    /\ c_pc = "persist"
    /\ "x_status" \in h_c_raised
    /\ "api_tweets" \in h_c_invoked \ h_c_raised
    /\ "x_changelog" \in h_c_raised

---------------------------------------------------------------------------
(* SpecDeliver: deliver_alert for one new alert after another, and the     *)
(* queueing of run()'s loop over all_alerts that follows a failed delivery. *)

MaxAttempts == 3

\* A channel called without a try around it: what it raises goes up.
TryChannel_Unguarded(result) ==
    [delivered |-> result = "true", raised |-> result = "raise"]

\* deliver_alert, lines 240-244 and 252-257: a channel is called inside a try;
\* what it raises is logged and counts as not delivered.
TryChannel(result) ==
    [delivered |-> result = "true", raised |-> FALSE]

\* deliver_alert: the channels called, in order, what is returned, and whether
\* an exception left the function.
DeliverAlert(slack, email, email_client) ==
    LET first == TryChannel(slack)
        second == TryChannel(email)
    IN  IF first.raised THEN [calls |-> << "slack" >>, returned |-> FALSE, raised |-> TRUE]
        ELSE IF first.delivered
          THEN [calls |-> << "slack" >>, returned |-> TRUE, raised |-> FALSE]
        ELSE IF ~email_client
          THEN [calls |-> << "slack" >>, returned |-> FALSE, raised |-> FALSE]
        ELSE [calls |-> << "slack", "email" >>,
              returned |-> second.delivered /\ ~second.raised, raised |-> second.raised]

InitDeliver ==
    /\ now = 0
    /\ runs = 0
    /\ QueueVarsInit
    /\ StatusVarsInit
    /\ t_key = "x_status"
    /\ IdVarsInit
    /\ RunVarsInit
    /\ LoadVarsInit
    /\ TrimVarsInit
    /\ VersionVarsInit
    /\ PageVarsInit
    /\ StoreVarsInit
    /\ TweetsVarsInit
    /\ ChecksVarsInit
    /\ OverlapVarsInit
    /\ FirstrunVarsInit
    /\ DigestidVarsInit
    /\ SitemapVarsInit
    /\ d_email_client \in BOOLEAN
    /\ d_log = << >>

\* run(), lines 658-672: a new alert is handed to deliver_alert; when it is
\* not delivered it is queued.
DeliverNewAlert ==
    /\ Len(d_log) < MaxAttempts
    /\ \E slack \in ChannelResults, email \in ChannelResults :
         LET alert == AlertPayload("x_status", "unreachable", now)
             done == DeliverAlert(slack, email, d_email_client)
             queued == ~done.raised /\ ~done.returned /\ NewFailureOutcome(alert, now) # << >>
         IN  d_log' = Append(d_log, [slack |-> slack, email |-> email, calls |-> done.calls,
                                     returned |-> done.returned, raised |-> done.raised,
                                     queued |-> queued])
    /\ UNCHANGED <<now, runs, d_email_client>>
    /\ UNCHANGED other_than_deliver

NextDeliver == DeliverNewAlert

SpecDeliver == InitDeliver /\ [][NextDeliver]_vars

\* How often a deliver_alert call called the channel.
ChannelCalls(attempt, channel) ==
    Cardinality({ i \in DOMAIN attempt.calls : attempt.calls[i] = channel })

\* C22: deliver_alert calls Slack exactly once and first; it calls email, once,
\* exactly when Slack did not deliver and an email client is configured; it
\* returns true exactly when a channel it called reported delivery; what a
\* channel raises counts as not delivered and never leaves deliver_alert; and
\* an alert is queued only when every channel there is was called and failed.
C22_PrimaryThenFallback ==
    \A i \in DOMAIN d_log :
      LET a == d_log[i]
      IN  /\ ChannelCalls(a, "slack") = 1
          /\ a.calls[1] = "slack"
          /\ ChannelCalls(a, "email")
               = (IF a.slack # "true" /\ d_email_client THEN 1 ELSE 0)
          /\ a.returned <=> \/ a.slack = "true"
                            \/ ChannelCalls(a, "email") = 1 /\ a.email = "true"
          /\ ~a.raised
          /\ a.queued =>
               /\ a.slack # "true"
               /\ d_email_client => ChannelCalls(a, "email") = 1 /\ a.email # "true"
          /\ d_email_client = allow_email_fallback
               => a.returned = deliver_alert(a.slack, a.email)

\* With an email client: Slack raised and email delivered, so the alert was
\* not queued; then Slack returned false and email raised, and it was queued.
C22_Witness ==
    /\ d_email_client
    /\ Len(d_log) >= 2
    /\ d_log[1].slack = "raise" /\ d_log[1].email = "true"
    /\ d_log[1].returned /\ ~d_log[1].queued
    /\ d_log[2].slack = "false" /\ d_log[2].email = "raise"
    /\ ~d_log[2].returned /\ d_log[2].queued

\* The keys of a target record the specification gives to the orchestrator.
OrchestratorOwned ==
    {"consecutive_failures", "last_error", "primary_state", "primary_silent_since",
     "backup_alert_active", "pending_incident_since", "incident_alerted"}

\* The keys of a target record the specification gives to the checkers:
\* last_checked, the dedup fingerprints and the cursors.
CheckerOwned == {"last_checked", "content_hash", "entry_ids", "last_tweet_id"}

\* C24: no checker's state patch contains an orchestrator-owned key.
C24_CheckerHalf ==
    \A w \in h_c_writes : w.writer = "checker" => w.key \notin OrchestratorOwned

\* C24: the loop bodies of run() write no checker-owned key of a record.
C24_OrchestratorHalf ==
    \A w \in h_c_writes : w.writer = "orchestrator" => w.key \notin CheckerOwned

\* C24: for every target, the checker's state patch contains no
\* orchestrator-owned key and the orchestrator writes no checker-owned key
\* of the target's record.
C24_DistinctWriteOwners == C24_CheckerHalf /\ C24_OrchestratorHalf

\* The step is an iteration of one of the loops over the targets.
IsIteration == c_pc = "checks" /\ c_i' = c_i + 1

\* The target of the iteration.
IterationTarget == ChecksTargets[c_i]

\* The target has no last_checked, or at least its interval has passed since.
IntervalElapsed(target_key) ==
    LET record == target_state(c_targets, target_key)
    IN  \/ "last_checked" \notin DOMAIN record
        \/ now - record["last_checked"][1] >= 60 * interval_minutes(target_key)

\* An iteration invokes the checker exactly when the target has no
\* last_checked or its interval has elapsed, and after an invocation, whether
\* the checker returned or raised, the record's last_checked is the run's now.
C25_InvokedWhenDue ==
    IsIteration =>
      /\ IterationTarget \in h_c_invoked' <=> IntervalElapsed(IterationTarget)
      /\ IterationTarget \in h_c_invoked' =>
           /\ "last_checked" \in DOMAIN c_targets'[IterationTarget]
           /\ c_targets'[IterationTarget]["last_checked"] = << now >>

\* Two invocations of the checker of a target are at least the target's
\* interval apart.
C25_OneIntervalApart ==
    IsIteration /\ IterationTarget \in h_c_invoked'
                /\ IterationTarget \in DOMAIN h_c_last_invoked =>
      now - h_c_last_invoked[IterationTarget] >= 60 * interval_minutes(IterationTarget)

\* C25: a target's checker is invoked in a run if and only if the target has
\* no last_checked or now - last_checked is at least the target's interval;
\* after any invocation, successful or failed, last_checked is that run's
\* now; so two invocations of a target are never less than one interval apart.
C25_IntervalGate == [][C25_InvokedWhenDue /\ C25_OneIntervalApart]_vars

\* A second run has skipped api_tweets, whose only check so far raised, less
\* than its interval ago, and has invoked x_status again.
C25_Witness ==
    /\ runs = 2
    /\ c_pc = "persist"
    /\ "x_status" \in h_c_invoked
    /\ "x_status" \in DOMAIN h_c_last_invoked
    /\ "api_tweets" \notin h_c_invoked
    /\ c_targets["api_tweets"]["consecutive_failures"] = 1
---------------------------------------------------------------------------
(* SpecTrim: meta.sent_alert_ids over consecutive runs.  A run loads the   *)
(* list (run_monitor.py 279-282), appends the id of every retried alert    *)
(* that was delivered (637) and of every new alert that was delivered      *)
(* (660), and persists trim_sent_ids of the list (674).  An id is named    *)
(* by the order of its recording.                                          *)

MaxTrimRuns == 3
MaxRecorded == 2

\* The lengths of the persisted list when the first run starts.
TrimStartLengths == {0, SentIdsLimit - 2, SentIdsLimit - 1, SentIdsLimit}

\* The id recorded next: one more than the one recorded last.
NextRecordedId == Len(h_m_recorded) + 1

InitTrim ==
    /\ now = 0
    /\ runs = 0
    /\ QueueVarsInit
    /\ StatusVarsInit
    /\ t_key = "x_status"
    /\ IdVarsInit
    /\ RunVarsInit
    /\ LoadVarsInit
    /\ DeliverVarsInit
    /\ VersionVarsInit
    /\ PageVarsInit
    /\ StoreVarsInit
    /\ TweetsVarsInit
    /\ ChecksVarsInit
    /\ OverlapVarsInit
    /\ FirstrunVarsInit
    /\ DigestidVarsInit
    /\ SitemapVarsInit
    /\ m_pc = "idle"
    /\ m_runs = 0
    /\ \E length \in TrimStartLengths : m_file = [i \in 1..length |-> i]
    /\ m_ids = << >>
    /\ h_m_recorded = m_file

\* run(), lines 279-282: sent_alert_ids is the list stored in meta.
TrimLoad ==
    /\ m_pc = "idle"
    /\ m_runs < MaxTrimRuns
    /\ m_runs' = m_runs + 1
    /\ m_ids' = m_file
    /\ m_pc' = "pending"
    /\ UNCHANGED <<now, runs, m_file, h_m_recorded>>
    /\ UNCHANGED other_than_trim

\* run(), lines 635-637: a retried alert was delivered; its id is appended.
TrimRetryDelivered ==
    /\ m_pc = "pending"
    /\ Len(m_ids) - Len(m_file) < MaxRecorded
    /\ m_ids' = Append(m_ids, NextRecordedId)
    /\ h_m_recorded' = Append(h_m_recorded, NextRecordedId)
    /\ UNCHANGED <<now, runs, m_pc, m_runs, m_file>>
    /\ UNCHANGED other_than_trim

\* run(), lines 650-652: the loop over the pending alerts is over.
TrimPendingDone ==
    /\ m_pc = "pending"
    /\ m_pc' = "alerts"
    /\ UNCHANGED <<now, runs, m_runs, m_file, m_ids, h_m_recorded>>
    /\ UNCHANGED other_than_trim

\* run(), lines 658-661: a new alert was delivered; its id is appended.
TrimNewDelivered ==
    /\ m_pc = "alerts"
    /\ Len(m_ids) - Len(m_file) < MaxRecorded
    /\ m_ids' = Append(m_ids, NextRecordedId)
    /\ h_m_recorded' = Append(h_m_recorded, NextRecordedId)
    /\ UNCHANGED <<now, runs, m_pc, m_runs, m_file>>
    /\ UNCHANGED other_than_trim

\* run(), lines 674-677: the trimmed list is put into meta and the state is saved.
TrimSave ==
    /\ m_pc = "alerts"
    /\ m_file' = trim_sent_ids(m_ids)
    /\ m_pc' = "idle"
    /\ UNCHANGED <<now, runs, m_runs, m_ids, h_m_recorded>>
    /\ UNCHANGED other_than_trim

NextTrim ==
    \/ TrimLoad
    \/ TrimRetryDelivered
    \/ TrimPendingDone
    \/ TrimNewDelivered
    \/ TrimSave

SpecTrim == InitTrim /\ [][NextTrim]_vars

\* The last count entries of a list, in the list's order.
MostRecent(ids, count) ==
    [i \in 1..count |-> ids[Len(ids) - count + i]]

\* C26: after every completed run the persisted sent_alert_ids has at most
\* 2000 entries, and they are the most recently recorded ids, in recording
\* order: all of them while there are at most 2000, the last 2000 otherwise.
C26_TrimKeepsMostRecent ==
    m_pc = "idle" /\ m_runs > 0 =>
      /\ Len(m_file) <= 2000
      /\ m_file = MostRecent(h_m_recorded,
                             IF Len(h_m_recorded) < 2000 THEN Len(h_m_recorded) ELSE 2000)

\* A completed run has dropped ids: more than 2000 were recorded, and the
\* oldest one is no longer in the persisted list.
C26_Witness ==
    /\ m_pc = "idle"
    /\ m_runs > 0
    /\ Len(h_m_recorded) > 2000
    /\ Len(m_file) = 2000
    /\ m_file[1] > 1
---------------------------------------------------------------------------
(* SpecVersion: the release alert over consecutive completed runs          *)
(* (run_monitor.py 87-121 and 325-336).  Between runs another version of   *)
(* the package may be installed.                                           *)

MaxVersionRuns == 4

\* What current_app_version() returns: the version in the package metadata,
\* or "unknown" when the package is not installed.
InstalledVersions == {"0.1.0", "0.2.0", "unknown"}

\* The time between two runs.
VersionDeltas == {300, 3600}

\* str.strip() on the texts of the model.
Strip(text) ==
    CASE text = " 0.1.0 " -> "0.1.0"
      [] text = " 0.2.0 " -> "0.2.0"
      [] text = "0.2.0\n" -> "0.2.0"
      [] text = " " -> ""
      [] OTHER -> text

\* normalize_version: None for a value that is not a string or is blank,
\* else the stripped string.
normalize_version(value) ==
    IF value = << >>
      THEN << >>
      ELSE LET normalized == Strip(value[1])
           IN  IF normalized = "" THEN << >> ELSE << normalized >>

\* version_transition_alert without the first-run test.
version_transition_alert_IgnoresFirstRun(previous_version, current_version, t, is_first_run) ==
    IF previous_version = << current_version >>
      THEN << >>
      ELSE LET previous_label == IF previous_version # << >> THEN previous_version[1]
                                                              ELSE "unknown"
           IN  << AlertPayload("release", previous_label \o "->" \o current_version, t) >>

\* version_transition_alert: None, or the release alert.
version_transition_alert(previous_version, current_version, t, is_first_run) ==
    IF is_first_run
      THEN << >>
      ELSE IF previous_version = << current_version >>
        THEN << >>
        ELSE LET previous_label == IF previous_version # << >> THEN previous_version[1]
                                                                ELSE "unknown"
             IN  << AlertPayload("release", previous_label \o "->" \o current_version, t) >>

InitVersion ==
    /\ now = 0
    /\ runs = 0
    /\ QueueVarsInit
    /\ StatusVarsInit
    /\ t_key = "x_status"
    /\ IdVarsInit
    /\ RunVarsInit
    /\ LoadVarsInit
    /\ DeliverVarsInit
    /\ TrimVarsInit
    /\ PageVarsInit
    /\ StoreVarsInit
    /\ TweetsVarsInit
    /\ ChecksVarsInit
    /\ OverlapVarsInit
    /\ FirstrunVarsInit
    /\ DigestidVarsInit
    /\ SitemapVarsInit
    /\ v_installed \in InstalledVersions
    /\ v_stored = << >>
    /\ v_targets = {}
    /\ v_new_alerts = << >>
    /\ h_v_last_run_version = << >>

\* Another version of the package is installed between two runs.
VersionDeploy ==
    /\ \E version \in InstalledVersions \ {v_installed} : v_installed' = version
    /\ UNCHANGED <<now, runs, v_stored, v_targets, v_new_alerts, h_v_last_run_version>>
    /\ UNCHANGED other_than_version

\* run(), a completed run: first_run (line 270), the release alert (325-335),
\* meta.deployed_version (336), a record for every target (338-344) and the
\* state saved (677).
VersionRun ==
    /\ runs < MaxVersionRuns
    /\ runs' = runs + 1
    /\ \E delta \in VersionDeltas : now' = now + delta
    /\ LET is_first_run == Cardinality(v_targets) = 0
           current_version == v_installed
           previous_version == normalize_version(v_stored)
           version_alert == version_transition_alert(previous_version, current_version,
                                                     now', is_first_run)
       IN  /\ v_new_alerts' = version_alert
           /\ v_stored' = << current_version >>
    /\ v_targets' = TargetKeys
    /\ h_v_last_run_version' = << v_installed >>
    /\ UNCHANGED v_installed
    /\ UNCHANGED other_than_version

NextVersion ==
    \/ VersionDeploy
    \/ VersionRun

SpecVersion == InitVersion /\ [][NextVersion]_vars

\* The step is a run.
IsVersionRun == runs' = runs + 1

\* The run of the step generated a release alert, and only one.
ReleaseAlertGenerated ==
    /\ Len(v_new_alerts') = 1
    /\ v_new_alerts'[1].source = "release"

\* A run generates a release alert exactly when it is not a first run and
\* the stored deployed_version is not the current version, and it stores the
\* current version.
C27_AlertWhenStoredDiffers ==
    IsVersionRun =>
      /\ ReleaseAlertGenerated <=> v_targets # {} /\ v_stored # << v_installed >>
      /\ ~ReleaseAlertGenerated => v_new_alerts' = << >>
      /\ v_stored' = << v_installed >>

\* A run generates a release alert exactly when an earlier run completed
\* and the version installed then is not the one installed now.
C27_OneAlertPerChange ==
    IsVersionRun =>
      (ReleaseAlertGenerated <=>
         h_v_last_run_version # << >> /\ h_v_last_run_version # << v_installed >>)

\* C27: a release alert is generated in a run if and only if the run is not
\* a first run and the stored deployed_version differs from the current
\* version; every run overwrites meta.deployed_version with the current
\* version; so over consecutive completed runs a version change produces
\* exactly one release alert and an unchanged version produces none.
C27_ReleaseAlert == [][C27_AlertWhenStoredDiffers /\ C27_OneAlertPerChange]_vars

\* The second run found 0.2.0 installed where the first run had stored another
\* version: it generated the release alert and stored 0.2.0.
C27_Witness ==
    /\ runs = 2
    /\ Len(v_new_alerts) = 1
    /\ v_new_alerts[1].source = "release"
    /\ v_stored = << "0.2.0" >>
    /\ v_installed = "0.2.0"
---------------------------------------------------------------------------
(* SpecPage: one call of check_status_page (status.py 66-143) with the     *)
(* alert delay 0 that run() passes (run_monitor.py 377), over the records  *)
(* a target can have and the pages a scrape can return.                    *)

\* The times of the call.
PageTimes == {600, 1200}

\* merged_text, as the set of the phrases of _phase_from_text it contains.
PageTexts ==
    { {"all systems operational"}, {"active incidents 0", "incident"}, {"major outage"},
      {"partial outage"}, {"degraded"}, {"maintenance"}, {"monitoring"}, {"incident"},
      {"operational"}, {}, {"major outage", "degraded"},
      {"all systems operational", "major outage"}, {"maintenance", "operational"} }

\* The phases check_status_page stores, and none stored.
StoredPhases ==
    { << >>, << "operational" >>, << "major_outage" >>, << "partial_outage" >>,
      << "degraded" >>, << "maintenance" >>, << "monitoring" >>, << "unknown" >> }

\* The content hashes stored: none, the hash of a page, another one.
StoredHashes == { << >>, << _hash_text({"major outage"}) >>, << "sha256:abc" >> }

\* incident_alerted: no key, false or true.
StoredAlerted == { << >>, << FALSE >>, << TRUE >> }

\* pending_incident_since: no key, None, or the time a check stored.
StoredPending == { << >>, << << >> >>, << << 0 >> >>, << << 600 >> >> }

\* A dict with the key when a value is given, the empty dict otherwise.
Entry(key, value) == IF value = << >> THEN EmptyDict ELSE key :> value[1]

\* The record of a target, from the values stored under its four keys.
StoredRecord(phase, content_hash, incident_alerted, pending_incident_since) ==
    Entry("phase", phase) @@ Entry("content_hash", content_hash)
      @@ Entry("incident_alerted", incident_alerted)
      @@ Entry("pending_incident_since", pending_incident_since)

\* A stored pending_incident_since is the time of a check that has run.
PendingNotAfter(pending_incident_since, t) ==
    IF Len(pending_incident_since) = 0 THEN TRUE
    ELSE IF Len(pending_incident_since[1]) = 0 THEN TRUE
    ELSE pending_incident_since[1][1] <= t

InitPage ==
    /\ runs = 0
    /\ QueueVarsInit
    /\ StatusVarsInit
    /\ t_key = "x_status"
    /\ IdVarsInit
    /\ RunVarsInit
    /\ LoadVarsInit
    /\ DeliverVarsInit
    /\ TrimVarsInit
    /\ VersionVarsInit
    /\ StoreVarsInit
    /\ TweetsVarsInit
    /\ ChecksVarsInit
    /\ OverlapVarsInit
    /\ FirstrunVarsInit
    /\ DigestidVarsInit
    /\ SitemapVarsInit
    /\ now \in PageTimes
    /\ \E phase \in StoredPhases, content_hash \in StoredHashes,
          incident_alerted \in StoredAlerted, pending_incident_since \in StoredPending :
         /\ PendingNotAfter(pending_incident_since, now)
         /\ p_previous = StoredRecord(phase, content_hash, incident_alerted,
                                      pending_incident_since)
    /\ p_text \in PageTexts
    /\ p_result = << >>

\* check_status_page is called and returns.
PageCheck ==
    /\ p_result = << >>
    /\ p_result' = << check_status_page("x_status", p_previous, p_text, now) >>
    /\ UNCHANGED <<now, runs, p_previous, p_text>>
    /\ UNCHANGED other_than_page

NextPage == PageCheck

SpecPage == InitPage /\ [][NextPage]_vars

\* The prior state has incident_alerted false: the key is missing or false.
NotYetAlerted ==
    "incident_alerted" \notin DOMAIN p_previous \/ p_previous["incident_alerted"] = FALSE

\* The phases other than operational and unknown.
NonOperationalPhases ==
    {"major_outage", "partial_outage", "degraded", "maintenance", "monitoring"}

\* C28: for a prior state with incident_alerted false and a scrape classified
\* as a non-operational phase, check_status_page with alert delay 0 returns
\* exactly one event, of kind incident_started, with severity critical for
\* major_outage, partial_outage and degraded and warning for maintenance and
\* monitoring, and its state patch sets incident_alerted to true.
C28_FirstEventIncidentStarted ==
    p_result # << >> /\ NotYetAlerted /\ _phase_from_text(p_text) \in NonOperationalPhases =>
      LET result == p_result[1]
          phase == _phase_from_text(p_text)
      IN  /\ Len(result.events) = 1
          /\ result.events[1].kind = "incident_started"
          /\ phase \in {"major_outage", "partial_outage", "degraded"} =>
               result.events[1].severity = "critical"
          /\ phase \in {"maintenance", "monitoring"} =>
               result.events[1].severity = "warning"
          /\ "incident_alerted" \in DOMAIN result.state_update
          /\ result.state_update["incident_alerted"] = TRUE

\* A page in maintenance was checked against a record without incident_alerted
\* whose pending_incident_since is an earlier time: the event is a warning.
C28_Witness ==
    /\ p_result # << >>
    /\ "incident_alerted" \notin DOMAIN p_previous
    /\ "pending_incident_since" \in DOMAIN p_previous
    /\ p_previous["pending_incident_since"] = << 0 >>
    /\ p_text = {"maintenance", "operational"}
    /\ Len(p_result[1].events) = 1
    /\ p_result[1].events[1].severity = "warning"
---------------------------------------------------------------------------
(* SpecStore: the two files between one run and the next (state.py 41-83,  *)
(* run_monitor.py 266-267, 318-323 and 677-678).  A run saves its state    *)
(* and its queue; the next run loads both and validates the queue items.   *)
(* The text of a file is the JSON document json.dump writes: the members   *)
(* of an object sorted by key, a datetime of a queue item as the string    *)
(* pydantic renders.                                                       *)

\* The times of the model: of the saving run and of what it stores.
StoreTimes == {0, 330, 600, 930}

\* The numbers a file of the model holds.
MaxStoreNumber == 6

JTrue == [type |-> "true"]

JFalse == [type |-> "false"]

\* Every key of the objects of the model, in the order sort_keys=True writes them.
SortedKeys ==
    << "alert_id", "alerts_sent", "attempts", "body", "changes", "consecutive_failures",
       "content_hash", "created_at", "deployed_version", "digest", "entry_ids",
       "error", "failed_checks", "first_failed_at", "incident_alerted", "kind", "last_checked",
       "last_error", "last_sent_date", "last_successful_run", "last_tweet_id",
       "last_updated", "level", "links", "meta", "next_retry_at", "occurred_at",
       "payload", "pending_incident_since", "phase", "sent_alert_ids", "severity",
       "source", "summary", "tags", "target", "targets", "title", "version",
       "watchdog_alerted", "x_changelog", "x_status" >>

\* The keys of a dict in sorted order.
SortKeys(keys) == SelectSeq(SortedKeys, LAMBDA k : k \in keys)

\* json.dump(payload, sort_keys=True): the text of a value.
RECURSIVE json_dump(_)
json_dump(value) ==
    CASE value.type = "null" -> [token |-> "null"]
      [] value.type = "true" -> [token |-> "true"]
      [] value.type = "false" -> [token |-> "false"]
      [] value.type = "number" -> [token |-> "number", digits |-> ToString(value.value)]
      [] value.type = "string" -> [token |-> "string", chars |-> value.value]
      [] value.type = "list" ->
           [token |-> "array",
            elements |-> [i \in DOMAIN value.items |-> json_dump(value.items[i])]]
      [] value.type = "object" ->
           LET keys == SortKeys(DOMAIN value.fields)
           IN  [token |-> "object",
                members |-> [i \in DOMAIN keys |->
                               [name |-> keys[i], text |-> json_dump(value.fields[keys[i]])]]]

\* json.loads: the value of a text.
RECURSIVE json_loads(_)
json_loads(text) ==
    CASE text.token = "null" -> JNull
      [] text.token = "true" -> JTrue
      [] text.token = "false" -> JFalse
      [] text.token = "number" ->
           JNum(CHOOSE n \in 0..MaxStoreNumber : ToString(n) = text.digits)
      [] text.token = "string" -> JStr(text.chars)
      [] text.token = "array" ->
           JList([i \in DOMAIN text.elements |-> json_loads(text.elements[i])])
      [] text.token = "object" ->
           LET names == { text.members[i].name : i \in DOMAIN text.members }
               \* a later member with the same name wins
               Last(name) == CHOOSE i \in DOMAIN text.members :
                               /\ text.members[i].name = name
                               /\ \A j \in DOMAIN text.members :
                                    text.members[j].name = name => j <= i
           IN  JObj([name \in names |-> json_loads(text.members[Last(name)].text)])

\* pydantic, mode="json": a datetime in UTC as a string.
DatetimeJson(t) == ToString(t) \o "Z"

\* datetime validation dropping the seconds.
datetime_validate_DropsSeconds(text) ==
    IF \E t \in StoreTimes : DatetimeJson(t) = text
      THEN << TruncateToMinute(CHOOSE t \in StoreTimes : DatetimeJson(t) = text) >>
      ELSE << >>

\* pydantic: the datetime of a string, or nothing when it is not one.
datetime_validate(text) ==
    IF \E t \in StoreTimes : DatetimeJson(t) = text
      THEN << CHOOSE t \in StoreTimes : DatetimeJson(t) = text >>
      ELSE << >>

\* The strings of a list of strings, as a JSON list.
JStrings(texts) == JList([i \in DOMAIN texts |-> JStr(texts[i])])

\* AlertPayload.model_dump(mode="json")
payload_dump(payload) ==
    JObj(("alert_id" :> JStr(payload.alert_id)) @@ ("source" :> JStr(payload.source))
         @@ ("level" :> JStr(payload.level)) @@ ("title" :> JStr(payload.title))
         @@ ("body" :> JStr(payload.body)) @@ ("links" :> JStrings(payload.links))
         @@ ("created_at" :> JStr(DatetimeJson(payload.created_at)))
         @@ ("tags" :> JStrings(payload.tags)))

\* PendingAlert.model_dump(mode="json")
model_dump(item) ==
    JObj(("payload" :> payload_dump(item.payload)) @@ ("attempts" :> JNum(item.attempts))
         @@ ("first_failed_at" :> JStr(DatetimeJson(item.first_failed_at)))
         @@ ("next_retry_at" :> JStr(DatetimeJson(item.next_retry_at))))

\* The field of an object is a string.
IsStringField(fields, name) == name \in DOMAIN fields /\ fields[name].type = "string"

\* The field of an object is missing, or a list of strings.
IsStringsField(fields, name) ==
    name \in DOMAIN fields =>
      /\ fields[name].type = "list"
      /\ \A i \in DOMAIN fields[name].items : fields[name].items[i].type = "string"

\* The field of an object is a string that is a datetime.
IsDatetimeField(fields, name) ==
    IsStringField(fields, name) /\ datetime_validate(fields[name].value) # << >>

\* The strings of the field of an object, the empty list when it is missing
\* (Field(default_factory=list)).
Strings(fields, name) ==
    IF name \in DOMAIN fields
      THEN [i \in DOMAIN fields[name].items |-> fields[name].items[i].value]
      ELSE << >>

\* AlertPayload validation: the payload, or nothing when it raises.
payload_validate(raw) ==
    IF /\ raw.type = "object"
       /\ \A name \in {"alert_id", "source", "level", "title", "body"} :
            IsStringField(raw.fields, name)
       /\ raw.fields["level"].value \in {"critical", "warning", "info", "resolved"}
       /\ IsDatetimeField(raw.fields, "created_at")
       /\ IsStringsField(raw.fields, "links")
       /\ IsStringsField(raw.fields, "tags")
      THEN << [alert_id |-> raw.fields["alert_id"].value,
               source |-> raw.fields["source"].value,
               level |-> raw.fields["level"].value,
               title |-> raw.fields["title"].value,
               body |-> raw.fields["body"].value,
               links |-> Strings(raw.fields, "links"),
               created_at |-> datetime_validate(raw.fields["created_at"].value)[1],
               tags |-> Strings(raw.fields, "tags")] >>
      ELSE << >>

\* PendingAlert.model_validate: the item, or nothing when it raises.
model_validate(raw) ==
    IF /\ raw.type = "object"
       /\ "payload" \in DOMAIN raw.fields
       /\ payload_validate(raw.fields["payload"]) # << >>
       /\ "attempts" \in DOMAIN raw.fields
       /\ raw.fields["attempts"].type = "number"
       /\ IsDatetimeField(raw.fields, "first_failed_at")
       /\ IsDatetimeField(raw.fields, "next_retry_at")
      THEN << [payload |-> payload_validate(raw.fields["payload"])[1],
               attempts |-> raw.fields["attempts"].value,
               first_failed_at |-> datetime_validate(raw.fields["first_failed_at"].value)[1],
               next_retry_at |-> datetime_validate(raw.fields["next_retry_at"].value)[1]] >>
      ELSE << >>

\* run(), lines 318-323: the items of pending_raw that validate, in order.
RECURSIVE ValidatePending(_)
ValidatePending(pending_raw) ==
    IF pending_raw = << >> THEN << >>
    ELSE model_validate(Head(pending_raw)) \o ValidatePending(Tail(pending_raw))

\* StateStore._atomic_dump: the file after the replacement.
_atomic_dump(payload) == [kind |-> "text", text |-> json_dump(payload)]

\* StateStore.save_state: last_updated is set, the state is dumped.
save_state(state, t) ==
    LET stamped == Put(state, "last_updated", JStr(IsoFormat(t)))
    IN  [state |-> stamped, file |-> _atomic_dump(JObj(stamped))]

\* StateStore.save_pending
save_pending(pending) == _atomic_dump(JList(pending))

\* StateStore.load_pending: [] for a missing file or a document that is not
\* a list, else the items of the list that are dicts.
load_pending(file) ==
    IF file.kind = "missing"
      THEN << >>
      ELSE LET parsed == json_loads(file.text)
           IN  IF parsed.type # "list"
                 THEN << >>
                 ELSE SelectSeq(parsed.items, LAMBDA item : item.type = "object")

\* StateStore.load_state on the state file of SpecStore.
load_state_file(file) ==
    IF file.kind = "missing"
      THEN load_state(file)
      ELSE load_state([kind |-> "json", value |-> json_loads(file.text)])

\* state["targets"] at the end of a run: a quiet status page and a changelog
\* with known entries, or an alerted incident and a changelog whose check failed.
StoreTargets ==
    { JObj(("x_status" :> JObj(("phase" :> JStr("operational"))
                               @@ ("content_hash" :> JStr("sha256:ab"))
                               @@ ("last_checked" :> JStr(IsoFormat(330)))
                               @@ ("pending_incident_since" :> JNull)
                               @@ ("incident_alerted" :> JFalse)
                               @@ ("consecutive_failures" :> JNum(0))
                               @@ ("last_error" :> JNull)))
           @@ ("x_changelog" :> JObj(("entry_ids" :> JStrings(<< "e2", "e1" >>))
                                     @@ ("last_checked" :> JStr(IsoFormat(0)))
                                     @@ ("consecutive_failures" :> JNum(0))
                                     @@ ("last_error" :> JNull)))),
      JObj(("x_status" :> JObj(("phase" :> JStr("major_outage"))
                               @@ ("content_hash" :> JStr("sha256:cd"))
                               @@ ("last_checked" :> JStr(IsoFormat(330)))
                               @@ ("pending_incident_since" :> JStr(IsoFormat(0)))
                               @@ ("incident_alerted" :> JTrue)
                               @@ ("consecutive_failures" :> JNum(0))
                               @@ ("last_error" :> JNull)))
           @@ ("x_changelog" :> JObj(("last_checked" :> JStr(IsoFormat(330)))
                                     @@ ("consecutive_failures" :> JNum(2))
                                     @@ ("last_error" :> JStr("timeout"))))) }

\* state["digest"] at the end of a run: nothing logged, or a change and a
\* failed check logged after a digest was sent.
StoreDigests ==
    { DefaultDigest,
      JObj(("changes" :> JList(<< JObj(("occurred_at" :> JStr(IsoFormat(330)))
                                        @@ ("target" :> JStr("x_status"))
                                        @@ ("summary" :> JStr("Incident detected: major outage"))
                                        @@ ("severity" :> JStr("critical"))
                                        @@ ("kind" :> JStr("incident_started"))) >>))
           @@ ("alerts_sent" :> JNum(3))
           @@ ("failed_checks" :> JList(<< JObj(("occurred_at" :> JStr(IsoFormat(330)))
                                              @@ ("target" :> JStr("x_changelog"))
                                              @@ ("error" :> JStr("timeout"))) >>))
           @@ ("last_sent_date" :> JStr("2026-01-01"))) }

\* state["meta"] at the end of a run at time t.
StoreMetas(t) ==
    { JObj(("last_successful_run" :> JStr(IsoFormat(t))) @@ ("watchdog_alerted" :> alerted)
           @@ ("sent_alert_ids" :> JStrings(ids)) @@ ("deployed_version" :> JStr("0.2.0"))) :
        alerted \in {JFalse, JTrue}, ids \in { << >>, << "c3d4", "a1b2" >> } }

\* Two alerts whose delivery failed.
StoreAlertOne ==
    [alert_id |-> "9f8e", source |-> "x_status", level |-> "critical",
     title |-> "x_status incident", body |-> "Incident detected: major outage",
     links |-> << "https://status.example" >>, created_at |-> 330, tags |-> << "incident_started" >>]

StoreAlertTwo ==
    [alert_id |-> "0a1b", source |-> "release", level |-> "info",
     title |-> "Infra Alerts updated to v0.2.0", body |-> "Version changed",
     links |-> << >>, created_at |-> 0, tags |-> << "release", "version" >>]

\* remaining_pending.values() at the end of a run: the queue, in insertion order.
StorePendings ==
    LET one == PendingAlert(StoreAlertOne, 1, 330, 600)
        two == PendingAlert(StoreAlertTwo, 3, 0, 930)
    IN  { << >>, << one >>, << one, two >>, << two, one >> }

InitStore ==
    /\ runs = 0
    /\ QueueVarsInit
    /\ StatusVarsInit
    /\ t_key = "x_status"
    /\ IdVarsInit
    /\ RunVarsInit
    /\ LoadVarsInit
    /\ DeliverVarsInit
    /\ TrimVarsInit
    /\ VersionVarsInit
    /\ PageVarsInit
    /\ TweetsVarsInit
    /\ ChecksVarsInit
    /\ OverlapVarsInit
    /\ FirstrunVarsInit
    /\ DigestidVarsInit
    /\ SitemapVarsInit
    /\ now \in {600, 930}
    /\ o_pc = "saving"
    /\ \E targets \in StoreTargets, digest \in StoreDigests, meta \in StoreMetas(now) :
         o_state = ("version" :> JNum(1)) @@ ("last_updated" :> JStr(IsoFormat(0)))
                   @@ ("targets" :> targets) @@ ("digest" :> digest) @@ ("meta" :> meta)
    /\ o_pending \in StorePendings
    /\ o_state_file = [kind |-> "missing"]
    /\ o_pending_file = [kind |-> "missing"]
    /\ o_loaded_state = << >>
    /\ o_loaded_pending = << >>
    /\ o_pending_models = << >>

\* run(), line 677: state_store.save_state(state)
StoreSaveState ==
    /\ o_pc = "saving"
    /\ \E saved \in { save_state(o_state, now) } :
         /\ o_state' = saved.state
         /\ o_state_file' = saved.file
    /\ o_pc' = "saved_state"
    /\ UNCHANGED <<now, runs, o_pending, o_pending_file, o_loaded_state, o_loaded_pending,
                   o_pending_models>>
    /\ UNCHANGED other_than_store

\* run(), line 678: state_store.save_pending of the dumped queue items.
StoreSavePending ==
    /\ o_pc = "saved_state"
    /\ o_pending_file' = save_pending([i \in DOMAIN o_pending |-> model_dump(o_pending[i])])
    /\ o_pc' = "saved"
    /\ UNCHANGED <<now, runs, o_state, o_pending, o_state_file, o_loaded_state,
                   o_loaded_pending, o_pending_models>>
    /\ UNCHANGED other_than_store

\* The next run, line 266: state = state_store.load_state()
StoreLoadState ==
    /\ o_pc = "saved"
    /\ \E loaded \in { load_state_file(o_state_file) } :
         /\ ~loaded.raised
         /\ o_loaded_state' = << loaded.state >>
    /\ o_pc' = "loaded_state"
    /\ UNCHANGED <<now, runs, o_state, o_pending, o_state_file, o_pending_file,
                   o_loaded_pending, o_pending_models>>
    /\ UNCHANGED other_than_store

\* The next run, lines 267 and 318-323: pending_raw = state_store.load_pending()
\* and the loop that validates its items.
StoreLoadPending ==
    /\ o_pc = "loaded_state"
    /\ \E pending_raw \in { load_pending(o_pending_file) } :
         /\ o_loaded_pending' = pending_raw
         /\ o_pending_models' = ValidatePending(pending_raw)
    /\ o_pc' = "loaded"
    /\ UNCHANGED <<now, runs, o_state, o_pending, o_state_file, o_pending_file,
                   o_loaded_state>>
    /\ UNCHANGED other_than_store

NextStore ==
    \/ StoreSaveState
    \/ StoreSavePending
    \/ StoreLoadState
    \/ StoreLoadPending

SpecStore == InitStore /\ [][NextStore]_vars

\* save_state rewrites last_updated and nothing else of the state it is given.
C29_SaveRewritesLastUpdated ==
    o_pc = "saving" /\ o_pc' = "saved_state" =>
      /\ DOMAIN o_state' = DOMAIN o_state
      /\ \A key \in DOMAIN o_state \ {"last_updated"} : o_state'[key] = o_state[key]
      /\ o_state'["last_updated"] = JStr(IsoFormat(now))

\* load_state returns what save_state wrote.
C29_StateReadBack ==
    o_pc' = "loaded_state" /\ o_pc = "saved" =>
      /\ DOMAIN o_loaded_state'[1] = DOMAIN o_state
      /\ \A key \in DOMAIN o_state : o_loaded_state'[1][key] = o_state[key]

\* load_pending returns the dumped items in the order of the queue, and the
\* items validated from them are the items of the queue.
C29_PendingReadBack ==
    o_pc' = "loaded" /\ o_pc = "loaded_state" =>
      /\ o_loaded_pending' = [i \in DOMAIN o_pending |-> model_dump(o_pending[i])]
      /\ Len(o_pending_models') = Len(o_pending)
      /\ \A i \in DOMAIN o_pending :
           /\ o_pending_models'[i].payload = o_pending[i].payload
           /\ o_pending_models'[i].attempts = o_pending[i].attempts
           /\ o_pending_models'[i].first_failed_at = o_pending[i].first_failed_at
           /\ o_pending_models'[i].next_retry_at = o_pending[i].next_retry_at

\* C29: save_state followed by load_state returns the saved targets, digest
\* and meta unchanged, only last_updated being rewritten, and save_pending
\* followed by load_pending returns the same items in the same order; a
\* queue item written at the end of a run is read back in the next run with
\* the same payload, attempts, first_failed_at and next_retry_at.
C29_SaveLoadRoundTrip ==
    [][C29_SaveRewritesLastUpdated /\ C29_StateReadBack /\ C29_PendingReadBack]_vars

\* The next run has read back a queue of two items, the release alert first,
\* and a state with an alerted incident and a logged change.
C29_Witness ==
    /\ o_pc = "loaded"
    /\ Len(o_pending_models) = 2
    /\ o_pending_models[1].payload.source = "release"
    /\ o_pending_models[2].next_retry_at = 600
    /\ o_loaded_state[1]["targets"].fields["x_status"].fields["incident_alerted"] = JTrue
    /\ Len(o_loaded_state[1]["digest"].fields["changes"].items) = 1
---------------------------------------------------------------------------
(* SpecTweets: the checks of one account over consecutive runs             *)
(* (tweets.py 37-85, run_monitor.py 500-527).  Every run is one interval   *)
(* after the previous one, so every run checks the account; the check      *)
(* returns for some fetched tweets, or raises.                             *)

MaxTweetChecks == 3

\* The tweets a fetch may return: with an id of digits, without an id, with
\* an id that is not a number.
TweetItems ==
    { [id |-> << "1" >>, text |-> "one"], [id |-> << "2" >>, text |-> "two"],
      [id |-> << "3" >>, text |-> "three"], [id |-> << >>, text |-> "no id"],
      [id |-> << "abc" >>, text |-> "not a number"] }

\* The answers of the API: up to two tweets, in any order, no tweet twice.
TweetPayloads ==
    { << >> } \cup { << item >> : item \in TweetItems }
      \cup { pair \in TweetItems \X TweetItems : pair[1] # pair[2] }

\* The cursor of a record: the number its last_tweet_id spells, if any.
Cursor(state) ==
    _tweet_id(IF "last_tweet_id" \in DOMAIN state THEN << state["last_tweet_id"] >> ELSE << >>)

\* The tweet ids of a list of events.
EventTweetIds(events) == { events[i].tweet_id : i \in DOMAIN events }

InitTweets ==
    /\ now = 0
    /\ runs = 0
    /\ QueueVarsInit
    /\ StatusVarsInit
    /\ t_key = "x_status"
    /\ IdVarsInit
    /\ RunVarsInit
    /\ LoadVarsInit
    /\ DeliverVarsInit
    /\ TrimVarsInit
    /\ VersionVarsInit
    /\ PageVarsInit
    /\ StoreVarsInit
    /\ ChecksVarsInit
    /\ OverlapVarsInit
    /\ FirstrunVarsInit
    /\ DigestidVarsInit
    /\ SitemapVarsInit
    /\ TweetsVarsInit

\* run(), lines 507-518: check_account_tweets returned; its patch is merged
\* into the record.
TweetsCheckOk ==
    /\ runs < MaxTweetChecks
    /\ runs' = runs + 1
    /\ now' = now + Minutes(tweets_interval_minutes)
    /\ \E payload \in TweetPayloads :
       \E result \in { check_account_tweets("api_tweets", tweet_accounts["api_tweets"],
                                            w_state, payload, now') } :
         /\ w_payload' = payload
         /\ w_events' = result.events
         /\ w_state' = CheckOk(w_state, result)
    /\ w_outcome' = "ok"
    /\ h_w_reported' = h_w_reported \cup EventTweetIds(w_events)
    /\ UNCHANGED other_than_tweets

\* run(), lines 522-527: check_account_tweets raised.
TweetsCheckFailed ==
    /\ runs < MaxTweetChecks
    /\ runs' = runs + 1
    /\ now' = now + Minutes(tweets_interval_minutes)
    /\ w_payload' = << >>
    /\ w_events' = << >>
    /\ w_state' = CheckFailed(w_state, now')
    /\ w_outcome' = "failed"
    /\ h_w_reported' = h_w_reported \cup EventTweetIds(w_events)
    /\ UNCHANGED other_than_tweets

NextTweets ==
    \/ TweetsCheckOk
    \/ TweetsCheckFailed

SpecTweets == InitTweets /\ [][NextTweets]_vars

\* The numeric ids of the fetched tweets.
FetchedIds(payload) ==
    { _tweet_id(payload[i].id)[1] : i \in { j \in DOMAIN payload : _tweet_id(payload[j].id) # << >> } }

\* The stored last_tweet_id never decreases.
C30_CursorMonotone ==
    Cursor(w_state) # << >> =>
      Cursor(w_state') # << >> /\ Cursor(w_state')[1] >= Cursor(w_state)[1]

\* A successful check emits one event for each fetched tweet whose id is
\* greater than the stored one, and none when no id is stored.
C30_EventsAreNewerTweets ==
    w_outcome' = "ok" =>
      /\ EventTweetIds(w_events') =
           IF Cursor(w_state) = << >> THEN {}
           ELSE { id \in FetchedIds(w_payload') : id > Cursor(w_state)[1] }
      /\ Len(w_events') = Cardinality(EventTweetIds(w_events'))

\* A failed check emits nothing and leaves the cursor as it was.
C30_FailureKeepsCursor ==
    w_outcome' = "failed" =>
      /\ w_events' = << >>
      /\ Cursor(w_state') = Cursor(w_state)
      /\ "last_tweet_id" \in DOMAIN w_state' <=> "last_tweet_id" \in DOMAIN w_state

\* No check reports a tweet that an earlier check reported.
C30_NotReportedTwice ==
    EventTweetIds(w_events') \cap (h_w_reported \cup EventTweetIds(w_events)) = {}

---------------------------------------------------------------------------
(* SpecSitemap: one iteration of the docs loop for twitterapi_sitemap      *)
(* (run_monitor.py 541-596) and the check_sitemap it calls (sitemap.py     *)
(* 47-118), over the records the target can have and the sitemaps a fetch  *)
(* can return.                                                             *)

\* sitemap.py, line 80: changed_urls[:40].
ChangedUrlsLimit == 40

\* The pages of the site.
SitemapUrls ==
    {"https://twitterapi.io/readme", "https://twitterapi.io/pricing",
     "https://twitterapi.io/changelog"}

\* config.py, lines 35-42 and 94-99: the default include and exclude patterns
\* the pages of the model contain.
sitemap_include_patterns == {"/readme", "/changelog"}

sitemap_exclude_patterns == {"/pricing"}

\* pattern in url, for the pages and the patterns of the model.
UrlContains(url, pattern) ==
    \/ url = "https://twitterapi.io/readme" /\ pattern = "/readme"
    \/ url = "https://twitterapi.io/pricing" /\ pattern = "/pricing"
    \/ url = "https://twitterapi.io/changelog" /\ pattern = "/changelog"

\* The lastmod texts of a url entry.
Lastmods == {"2026-02-07T09:00", "2026-02-07T10:00"}

\* _parse_sitemap: the url entries of a sitemap, in document order, no url twice.
Sitemaps ==
    { << >> } \cup { << [loc |-> url, lastmod |-> lastmod] >> : url \in SitemapUrls, lastmod \in Lastmods }
      \cup { << [loc |-> pair[1], lastmod |-> lastmod], [loc |-> pair[2], lastmod |-> lastmod] >> :
               pair \in { p \in SitemapUrls \X SitemapUrls : p[1] # p[2] }, lastmod \in Lastmods }

\* The page_lastmods a record may hold: none, or a map of urls to lastmods.
StoredLastmods ==
    { << >>,
      << ("https://twitterapi.io/readme" :> "2026-02-07T09:00") >>,
      << ("https://twitterapi.io/readme" :> "2026-02-07T09:00")
           @@ ("https://twitterapi.io/pricing" :> "2026-02-07T09:00") >> }

\* _summarize_page of the page of a url.
PageSummary(url) ==
    CASE url = "https://twitterapi.io/readme" -> "Readme | API Docs"
      [] url = "https://twitterapi.io/pricing" -> "Pricing"
      [] OTHER -> "Changelog"

\* The parameters of check_sitemap (sitemap.py, lines 47-53).
check_sitemap_parameters == {"target", "sitemap_url", "previous_state", "fetcher", "now"}

\* The keyword arguments of the call in run() (lines 575-583).
check_sitemap_call_keywords ==
    {"target", "sitemap_url", "previous_state", "fetcher", "now", "include_patterns",
     "exclude_patterns"}

\* The dict of a list of url entries.
RECURSIVE LocToLastmod(_)
LocToLastmod(entries) ==
    IF entries = << >> THEN EmptyDict
    ELSE Put(LocToLastmod(SubSeq(entries, 1, Len(entries) - 1)),
             entries[Len(entries)].loc, entries[Len(entries)].lastmod)

\* sitemap.py, lines 78-108: the loop over the changed urls.
RECURSIVE SitemapLoop(_, _, _, _, _, _)
SitemapLoop(target, changed_urls, updated_hashes, events, fetch_fails, t) ==
    IF changed_urls = << >> THEN [events |-> events, updated_hashes |-> updated_hashes]
    ELSE LET url == Head(changed_urls)
             summary == PageSummary(url)
             content_hash == Sha256Hex24(summary)
         IN  IF fetch_fails
               THEN SitemapLoop(target, Tail(changed_urls), updated_hashes,
                                Append(events,
                                       [target |-> target, link |-> url, severity |-> "warning",
                                        summary |-> "Updated page detected but content fetch failed",
                                        occurred_at |-> t, kind |-> "sitemap_change_fetch_failed"]),
                                fetch_fails, t)
             ELSE IF url \in DOMAIN updated_hashes /\ updated_hashes[url] = content_hash
               THEN SitemapLoop(target, Tail(changed_urls), updated_hashes, events, fetch_fails, t)
             ELSE SitemapLoop(target, Tail(changed_urls), Put(updated_hashes, url, content_hash),
                              Append(events,
                                     [target |-> target, link |-> url, severity |-> "info",
                                      summary |-> "Updated page: " \o summary,
                                      occurred_at |-> t, kind |-> "sitemap_change"]),
                              fetch_fails, t)

\* The body of check_sitemap (sitemap.py, lines 54-118).
check_sitemap(target, previous_state, entries, fetch_fails, t) ==
    LET current_map == LocToLastmod(entries)
        previous_map == Get(previous_state, "page_lastmods", EmptyDict)
        previous_hashes == Get(previous_state, "page_hashes", EmptyDict)
        changed_urls == SelectSeq([i \in DOMAIN entries |-> entries[i].loc],
                                  LAMBDA url : url \notin DOMAIN previous_map
                                               \/ previous_map[url] # current_map[url])
        done == SitemapLoop(target, Take(changed_urls, ChangedUrlsLimit), previous_hashes,
                            << >>, fetch_fails, t)
    IN  IF DOMAIN previous_map = {}
          THEN [events |-> << >>,
                state_update |-> [page_lastmods |-> current_map, page_hashes |-> previous_hashes,
                                  last_checked |-> << t >>]]
          ELSE [events |-> done.events,
                state_update |-> [page_lastmods |-> current_map,
                                  page_hashes |-> done.updated_hashes,
                                  last_checked |-> << t >>]]

\* A call of check_sitemap with keyword arguments: a keyword that is no
\* parameter of the function raises TypeError before the body runs.
CallCheckSitemap(keywords, target, previous_state, entries, fetch_fails, t) ==
    IF keywords \subseteq check_sitemap_parameters
      THEN [raised |-> FALSE,
            result |-> << check_sitemap(target, previous_state, entries, fetch_fails, t) >>]
      ELSE [raised |-> TRUE, result |-> << >>]

InitSitemap ==
    /\ runs = 0
    /\ QueueVarsInit
    /\ StatusVarsInit
    /\ t_key = "x_status"
    /\ IdVarsInit
    /\ RunVarsInit
    /\ LoadVarsInit
    /\ DeliverVarsInit
    /\ TrimVarsInit
    /\ VersionVarsInit
    /\ PageVarsInit
    /\ StoreVarsInit
    /\ TweetsVarsInit
    /\ ChecksVarsInit
    /\ OverlapVarsInit
    /\ FirstrunVarsInit
    /\ DigestidVarsInit
    /\ now \in {600, 1200}
    /\ \E stored \in StoredLastmods, failures \in {0, 1} :
         u_previous = Entry("page_lastmods", stored)
                        @@ (IF stored = << >> THEN EmptyDict ELSE "page_hashes" :> EmptyDict)
                        @@ ("consecutive_failures" :> failures)
    /\ u_sitemap \in Sitemaps
    /\ u_fetch_fails \in BOOLEAN
    /\ u_result = << >>
    /\ u_state = u_previous

\* run(), lines 574-596: the docs loop calls check_sitemap for the sitemap
\* target and merges what it returned, or counts the failure when it raised.
SitemapCheck ==
    /\ u_result = << >>
    /\ \E called \in { CallCheckSitemap(check_sitemap_call_keywords, "twitterapi_sitemap",
                                        u_previous, u_sitemap, u_fetch_fails, now) } :
         /\ u_result' = << called >>
         /\ u_state' = IF called.raised THEN CheckFailed(u_previous, now)
                       ELSE CheckOk(u_previous, called.result[1])
    /\ UNCHANGED <<now, runs, u_previous, u_sitemap, u_fetch_fails>>
    /\ UNCHANGED other_than_sitemap

NextSitemap == SitemapCheck

SpecSitemap == InitSitemap /\ [][NextSitemap]_vars

\* The url matches an include pattern and no exclude pattern.
Considered(url) ==
    /\ \E pattern \in sitemap_include_patterns : UrlContains(url, pattern)
    /\ ~\E pattern \in sitemap_exclude_patterns : UrlContains(url, pattern)

\* The included urls of the fetched sitemap whose lastmod is not the stored one.
ChangedIncluded ==
    { u_sitemap[i].loc : i \in { j \in DOMAIN u_sitemap :
        /\ Considered(u_sitemap[j].loc)
        /\ \/ u_sitemap[j].loc \notin DOMAIN u_previous["page_lastmods"]
           \/ u_previous["page_lastmods"][u_sitemap[j].loc] # u_sitemap[j].lastmod } }

\* C31: check_sitemap, called with the include and exclude patterns, returns
\* a result; an excluded url produces no event and is not in the
\* page_lastmods of the state patch, and a changed included url produces
\* exactly one event.
C31_SitemapFiltered ==
    u_result # << >> /\ "page_lastmods" \in DOMAIN u_previous =>
      /\ ~u_result[1].raised
      /\ LET result == u_result[1].result[1]
         IN  /\ \A url \in DOMAIN result.state_update["page_lastmods"] : Considered(url)
             /\ \A i \in DOMAIN result.events : Considered(result.events[i].link)
             /\ \A url \in ChangedIncluded :
                  Cardinality({ i \in DOMAIN result.events : result.events[i].link = url }) = 1

---------------------------------------------------------------------------
(* SpecDigestId: the daily digest from run to run. The digest's alert id   *)
(* is "daily-digest-" and the UTC date of now (digest.py 46-55), the gate  *)
(* of run() compares the local date (lines 598-604). Every other alert id  *)
(* of a run is 24 hex digits (build_alert_id) and never equals a digest    *)
(* id, so the sent ids, the queue and the deliver_alert calls are followed *)
(* for the digest alerts only. The time zone, the digest hour and the      *)
(* retry window are settings (config.py 48-58).                            *)

MaxDigestRuns == 4

\* Seconds between the starts of two consecutive runs.
DigestDeltas == {Hours(1), Hours(22), Hours(24)}

\* TZ_NAME as an offset: UTC, Asia/Tokyo, America/Los_Angeles.
TzOffsets == {0, Hours(9), 0 - Hours(8)}

\* DIGEST_HOUR_LOCAL.
DigestHours == {0, 8}

\* RETRY_MAX_HOURS.
RetryMaxHours == {12, 48}

\* now.astimezone(ZoneInfo(settings.tz_name)).date() and .hour
LocalDateIn(tz, t) == (t + tz) \div Day

LocalHourIn(tz, t) == ((t + tz) % Day) \div 3600

\* run(), lines 600-602, with the settings as parameters.
DigestDueIn(tz, hour, last_sent_date, t) ==
    /\ \/ last_sent_date = << >>
       \/ last_sent_date[1] # IsoDate(LocalDateIn(tz, t))
    /\ LocalHourIn(tz, t) >= hour

\* next_retry_time with settings.retry_max_hours as a parameter.
next_retry_time_settings(max_hours, t, attempts, first_failed_at) ==
    LET elapsed == t - first_failed_at
        delay_minutes == IF attempts <= Len(retry_minutes)
                           THEN retry_minutes[attempts]
                           ELSE retry_tail_minutes
    IN  IF elapsed > Hours(max_hours)
          THEN << >>
          ELSE << t + Minutes(delay_minutes) >>

\* The state of the two delivery loops: the sent ids, the dict
\* remaining_pending, sent_id_set and the deliver_alert calls made so far.
LoopStart(sent_ids) ==
    [sent_alert_ids |-> sent_ids, remaining_pending |-> << >>,
     sent_id_set |-> {}, calls |-> << >>]

\* run(), lines 631-650: the loop over pending_models; outcomes[k] is what
\* the k-th deliver_alert call of the run returns.
RECURSIVE DigestPendingLoop(_, _, _, _, _)
DigestPendingLoop(max_hours, models, acc, outcomes, t) ==
    IF models = << >>
      THEN acc
      ELSE LET pending_item == Head(models)
               id == pending_item.payload.alert_id
               sent == outcomes[Len(acc.calls) + 1]
               attempts == pending_item.attempts + 1
               next_time == next_retry_time_settings(max_hours, t, attempts,
                                                     pending_item.first_failed_at)
               called == [acc EXCEPT !.calls =
                            Append(@, [alert_id |-> id, from |-> "queue", sent |-> sent,
                                       dropped |-> ~sent /\ next_time = << >>])]
               after ==
                 IF NotDue(pending_item, t)
                   THEN [acc EXCEPT !.remaining_pending = DictSet(@, pending_item)]
                 ELSE IF sent
                   THEN [called EXCEPT !.sent_alert_ids = Append(@, id)]
                 ELSE IF next_time = << >>
                   THEN called
                 ELSE [called EXCEPT !.remaining_pending =
                         DictSet(@, PendingAlert(pending_item.payload, attempts,
                                                 pending_item.first_failed_at,
                                                 next_time[1]))]
           IN  DigestPendingLoop(max_hours, Tail(models), after, outcomes, t)

\* run(), lines 653-672: the loop over all_alerts.
RECURSIVE DigestAlertsLoop(_, _, _, _, _)
DigestAlertsLoop(max_hours, alerts, acc, outcomes, t) ==
    IF alerts = << >>
      THEN acc
      ELSE LET alert == Head(alerts)
               id == alert.alert_id
               sent == outcomes[Len(acc.calls) + 1]
               next_time == next_retry_time_settings(max_hours, t, 1, t)
               called == [acc EXCEPT !.calls =
                            Append(@, [alert_id |-> id, from |-> "new", sent |-> sent,
                                       dropped |-> FALSE])]
               after ==
                 IF SkipNewAlert(alert, acc.sent_id_set, acc.remaining_pending)
                   THEN acc
                 ELSE IF sent
                   THEN [called EXCEPT !.sent_alert_ids = Append(@, id),
                                       !.sent_id_set = @ \cup {id}]
                 ELSE IF next_time = << >>
                   THEN called
                 ELSE [called EXCEPT !.remaining_pending =
                         DictSet(@, PendingAlert(alert, 1, t, next_time[1]))]
           IN  DigestAlertsLoop(max_hours, Tail(alerts), after, outcomes, t)

\* run(), lines 629-672: both loops, sent_id_set built between them (line 652).
DeliveryLoops(max_hours, sent_ids, models, alerts, outcomes, t) ==
    LET after_pending == DigestPendingLoop(max_hours, models,
                                           LoopStart(sent_ids), outcomes, t)
    IN  DigestAlertsLoop(max_hours, alerts,
                         [after_pending EXCEPT
                            !.sent_id_set = Range(after_pending.sent_alert_ids)],
                         outcomes, t)

\* The digest logs of a run that recorded nothing.
NoDigestLogs == [changes |-> << >>, failed_checks |-> << >>, alerts_sent |-> 0]

InitDigestId ==
    /\ runs = 0
    /\ QueueVarsInit
    /\ StatusVarsInit
    /\ t_key = "x_status"
    /\ IdVarsInit
    /\ RunVarsInit
    /\ LoadVarsInit
    /\ DeliverVarsInit
    /\ TrimVarsInit
    /\ VersionVarsInit
    /\ PageVarsInit
    /\ StoreVarsInit
    /\ TweetsVarsInit
    /\ SitemapVarsInit
    /\ ChecksVarsInit
    /\ OverlapVarsInit
    /\ FirstrunVarsInit
    /\ now = Day
    /\ y_tz \in TzOffsets
    /\ y_hour \in DigestHours
    /\ y_max_hours \in RetryMaxHours
    /\ y_targets = FALSE
    /\ y_last_sent_date = << >>
    /\ y_sent = << >>
    /\ y_pending = << >>
    /\ y_calls = << >>
    /\ h_y_digests = {}

\* run() for the daily digest: lines 266-270 (load, now, first_run), 598-604
\* (the gate and build_daily_digest), 606-618 (a first run hands over the
\* bootstrap alert only), 629-672 (the delivery loops), 674-678 (save).
DigestRun ==
    /\ runs < MaxDigestRuns
    /\ runs' = runs + 1
    /\ \E d \in DigestDeltas, outcomes \in [1..MaxDigestRuns -> BOOLEAN] :
         \E t \in { now + d } :
           LET is_first_run == ~y_targets
               due == DigestDueIn(y_tz, y_hour, y_last_sent_date, t)
               new_alerts == IF due THEN << build_daily_digest(NoDigestLogs, t) >> ELSE << >>
               handed == IF is_first_run THEN << >> ELSE new_alerts
           IN  /\ now' = t
               /\ y_last_sent_date' = IF due THEN << IsoDate(LocalDateIn(y_tz, t)) >>
                                             ELSE y_last_sent_date
               /\ \E done \in { DeliveryLoops(y_max_hours, y_sent, y_pending, handed,
                                              outcomes, t) } :
                    /\ y_sent' = trim_sent_ids(done.sent_alert_ids)
                    /\ y_pending' = done.remaining_pending
                    /\ y_calls' = done.calls
               /\ h_y_digests' = h_y_digests \cup
                                   { [local_date |-> LocalDateIn(y_tz, t),
                                      alert_id |-> handed[i].alert_id] : i \in DOMAIN handed }
    /\ y_targets' = TRUE
    /\ UNCHANGED <<y_tz, y_hour, y_max_hours>>
    /\ UNCHANGED other_than_digestid

NextDigestId == DigestRun

SpecDigestId == InitDigestId /\ [][NextDigestId]_vars

\* C32: within one run no alert id is handed to deliver_alert twice, be the
\* first call made for a due queue item (delivered, failed and kept, or
\* failed and dropped) or for a generated alert.
C32_OneAttemptPerRun ==
    \A i, j \in DOMAIN y_calls :
      i # j => y_calls[i].alert_id # y_calls[j].alert_id

\* C39: the digests of two different local dates have different alert ids.
C39_DigestIdsDistinct ==
    \A a, b \in h_y_digests :
      a.local_date # b.local_date => a.alert_id # b.alert_id

---------------------------------------------------------------------------
(* Further claims about the status loop, checked under SpecStatus.         *)

\* C33: a resolution is generated only by a check that scraped the phase
\* operational and only for an incident an alert was generated for: the
\* incident_resolved event only while an alerted incident is open, the
\* backup_incident_resolved alert only while a backup incident alert is
\* open; and a check that scraped unknown or monitoring resolves nothing
\* and leaves an open incident open.
C33_ResolvedOnlyWhenOperational ==
    /\ "incident_resolved" \in Kinds(s_events) =>
          /\ CheckedPhase = "operational"
          /\ h_prev_open_event
    /\ ResolutionAlerts # {} =>
          /\ CheckedPhase = "operational"
          /\ h_prev_open_backup
    /\ (s_outcome = "ok" /\ CheckedPhase \in {"unknown", "monitoring"}) =>
          /\ h_prev_open_event => h_open_event /\ Get(t_state, "incident_alerted", FALSE)
          /\ h_prev_open_backup => h_open_backup /\ Get(t_state, "backup_alert_active", FALSE)

ReachableAlerts == Tagged(s_alerts, "recovery")

\* A successful check generates the reachable again alert exactly when the
\* count it found is at the threshold or above, which is when the streak it
\* ends has generated its unreachable alert; it ends the streak.
C34_SuccessStep ==
    s_outcome' = "ok" =>
      /\ ReachableAlerts' # {} <=>
            ConsecutiveFailures(t_state) >= unreachable_alert_after_failures
      /\ ReachableAlerts' # {} <=> UnreachableAlerted(t_state)
      /\ Cardinality(ReachableAlerts') <= 1
      /\ ConsecutiveFailures(t_state') = 0
      /\ ~UnreachableAlerted(t_state')

\* A check that did not return generates no reachable again alert.
C34_OtherStep ==
    s_outcome' # "ok" => ReachableAlerts' = {}

\* The streak has generated its unreachable alert (the flag the failed check
\* sets with the alert) exactly when its count is at the threshold or above.
C34_StreakAlerted ==
    UnreachableAlerted(t_state) <=>
      ConsecutiveFailures(t_state) >= unreachable_alert_after_failures

\* C34: a successful status check generates a reachable again alert if and
\* only if consecutive_failures before the check is at least
\* unreachable_alert_after_failures; so every reachable again alert follows
\* the unreachable alert of the same streak, and a streak that generated an
\* unreachable alert gets exactly one reachable again alert, from its first
\* successful check, which resets the count.
C34_ReachableAgain ==
    /\ [][C34_SuccessStep /\ C34_OtherStep]_vars
    /\ []C34_StreakAlerted

\* A successful check after a streak that generated the unreachable alert.
C34_Witness ==
    /\ s_outcome = "ok"
    /\ ReachableAlerts # {}
    /\ ConsecutiveFailures(t_state) = 0
    /\ ~UnreachableAlerted(t_state)

\* The alerts made of status_update events: tagged backup_signal and neither
\* the backup incident alert nor its resolution.
ForwardedAlerts ==
    Tagged(s_alerts, "backup_signal")
      \ (Tagged(s_alerts, "primary_silent") \cup Tagged(s_alerts, "resolved"))

StatusUpdateEvents == { i \in DOMAIN s_events : s_events[i].kind = "status_update" }

\* The check returned, found the backup non-operational and the primary not
\* down, and backup_alert_active is set after the gate.
BackupAlertOpen ==
    /\ s_outcome = "ok"
    /\ CheckedPhase \in BackupDownPhases
    /\ Get(t_state, "primary_state", "unknown") # "down"
    /\ BackupAlertActive(t_state)

\* C35: the status_update events of a check are made into alerts tagged
\* backup_signal, one each, on a check that found the backup non-operational
\* and the primary not down and that ends with backup_alert_active set (the
\* check that raises the backup incident alert is one of them); on any other
\* check no alert is made of a status_update event, and no other event of
\* check_status_page is made into an alert.
C35_UpdatesForwardedWhileActive ==
    /\ ForwardedAlerts # {} => BackupAlertOpen
    /\ BackupAlertOpen => Cardinality(ForwardedAlerts) = Cardinality(StatusUpdateEvents)
    /\ \A i \in DOMAIN s_alerts :
         \/ i \in ForwardedAlerts
         \/ i \in Tagged(s_alerts, "primary_silent") \cup Tagged(s_alerts, "resolved")
         \/ i \in Tagged(s_alerts, "recovery") \cup Tagged(s_alerts, "unreachable")

\* A check emits a status_update event while the backup alert is active and
\* the event is forwarded.
C35_Witness ==
    /\ BackupAlertOpen
    /\ StatusUpdateEvents # {}
    /\ ForwardedAlerts # {}

\* A check emits a status_update event while no backup alert is active.
C35_WitnessInactive ==
    /\ s_outcome = "ok"
    /\ StatusUpdateEvents # {}
    /\ ~BackupAlertActive(t_state)
    /\ s_alerts = << >>

---------------------------------------------------------------------------
(* SpecKilled: run() after run() as in Spec, where a run may also end at   *)
(* any point between its load and its return (the process is killed, or a  *)
(* statement outside the try blocks raises); the next run starts from the  *)
(* files as they are then.                                                 *)

MaxKilledRuns == 3

\* BeginRun for the runs of SpecKilled.
BeginRunOrKilled ==
    /\ runs < MaxKilledRuns
    /\ BeginRun

\* The run ends here: nothing in memory is kept, the files stay as they are.
RunKilled ==
    /\ pc # "idle"
    /\ pc' = "idle"
    /\ UNCHANGED <<now, runs, f_targets, f_sent_alert_ids, f_last_successful_run,
                   f_pending, first_run, sent_alert_ids, pending_models, pending_i,
                   remaining_pending, all_alerts, alert_i, sent_id_set,
                   h_deliveries, h_failed, h_dropped, h_loaded_sent, h_generated>>
    /\ UNCHANGED <<status_vars, id_vars, run_vars, load_vars, later_vars>>

NextKilled ==
    \/ BeginRunOrKilled
    \/ RetryPending
    \/ BuildSentIdSet
    \/ DeliverNew
    \/ SaveState
    \/ SavePending
    \/ RunKilled

SpecKilled == Init /\ [][NextKilled]_vars

\* The step is state_store.save_state(state) of line 677, reached after both
\* delivery loops.
IsFinalPersist == pc = "alerts" /\ pc' = "save_pending"

\* C36: the persisted meta.last_successful_run changes only in the final
\* persist step of a run, which sets it to that run's now whatever the
\* deliveries of the run returned; every other step of a run, and the end of
\* a run that is killed before that step, leaves the persisted value as it
\* was.
C36_LastSuccessfulRun ==
    [][ /\ IsFinalPersist => f_last_successful_run' = << now >>
        /\ ~IsFinalPersist => f_last_successful_run' = f_last_successful_run ]_vars

\* A run was killed after a delivery of it had failed and before its final
\* persist step: the persisted value is still the one of an earlier run.
C36_Witness ==
    /\ pc = "idle"
    /\ f_last_successful_run # << >>
    /\ f_last_successful_run[1] < now
    /\ \E i \in DOMAIN h_deliveries : ~h_deliveries[i].sent

---------------------------------------------------------------------------
(* Further claims about the files a run leaves, checked under Spec.        *)

NoDuplicates(s) == \A i, j \in DOMAIN s : i # j => s[i] # s[j]

\* C38: when a run has returned, the pending-alerts file holds at most one
\* item per alert id, no alert id is both in that file and in
\* meta.sent_alert_ids, and meta.sent_alert_ids holds no id twice.
C38_FilesConsistent ==
    pc = "idle" =>
      /\ \A i, j \in DOMAIN f_pending :
           i # j => f_pending[i].payload.alert_id # f_pending[j].payload.alert_id
      /\ Ids(f_pending) \cap Range(f_sent_alert_ids) = {}
      /\ NoDuplicates(f_sent_alert_ids)

\* A run has returned that skipped a generated alert whose id was in the
\* queue, and the files hold a queued item and a sent id.
C38_Witness ==
    /\ pc = "idle"
    /\ f_pending # << >>
    /\ f_sent_alert_ids # << >>
    /\ \E i \in DOMAIN all_alerts :
         /\ all_alerts[i].alert_id \in Ids(pending_models)
         /\ \A k \in DOMAIN h_deliveries :
              h_deliveries[k].alert_id # all_alerts[i].alert_id

---------------------------------------------------------------------------
(* SpecFirstRun: the targets map from run to run. Each run goes through    *)
(* the three loops of run() over all eight targets; a target that is due   *)
(* is checked and its check returns or raises.                             *)

MaxFirstRuns == 4

\* Seconds between the starts of two consecutive runs.
FirstRunDeltas == {120, 1800}

\* The order of the loops: status_checks, tweet_accounts, docs_targets.
LoopTargets == << "x_status", "twitterapi_status", "api_tweets", "xdevelopers_tweets",
                  "x_docs_github", "x_changelog", "twitterapi_changelog",
                  "twitterapi_sitemap" >>

\* The targets whose checks raise in a run. The check of twitterapi_sitemap
\* raises in every run: the call passes keywords check_sitemap does not take.
RaisingSets == { {"twitterapi_sitemap"},
                 {"twitterapi_sitemap", "x_status"},
                 {"twitterapi_sitemap", "api_tweets", "x_changelog"},
                 TargetKeys }

\* The page and the patch of a check that returns.
QuietPage == {"all systems operational"}

QuietResult(t) == [state_update |-> "last_checked" :> << t >>, events |-> << >>]

\* TargetIteration leaving the map alone when the check raised.
TargetIteration_FailureNotRecorded(targets, target_key, raising, t) ==
    LET record == target_state(targets, target_key)
        interval == interval_minutes(target_key)
    IN  IF ~should_run(Get(record, "last_checked", << >>), interval, t)
          THEN Put(targets, target_key, record)
        ELSE IF target_key \in raising
          THEN targets
        ELSE IF target_key \in StatusTargets
          THEN Put(targets, target_key,
                   StatusCheckOk(target_key, record,
                                 check_status_page(target_key, record, QuietPage, t),
                                 "up", t).state)
        ELSE Put(targets, target_key, CheckOk(record, QuietResult(t)))

\* run(), lines 364-369, 501-506, 548-553 and the try/except after them: one
\* iteration of a loop. target_state (lines 338-344) puts an empty record
\* into the map when the target has none, before should_run is asked.
TargetIteration(targets, target_key, raising, t) ==
    LET record == target_state(targets, target_key)
        interval == interval_minutes(target_key)
    IN  IF ~should_run(Get(record, "last_checked", << >>), interval, t)
          THEN Put(targets, target_key, record)
        ELSE IF target_key \in raising
          THEN Put(targets, target_key,
                   IF target_key \in StatusTargets
                     THEN StatusCheckFailed(target_key, record, t).state
                     ELSE CheckFailed(record, t))
        ELSE IF target_key \in StatusTargets
          THEN Put(targets, target_key,
                   StatusCheckOk(target_key, record,
                                 check_status_page(target_key, record, QuietPage, t),
                                 "up", t).state)
        ELSE Put(targets, target_key, CheckOk(record, QuietResult(t)))

\* run(), lines 363-596: the three loops.
RECURSIVE TargetLoops(_, _, _, _)
TargetLoops(targets, keys, raising, t) ==
    IF keys = << >>
      THEN targets
      ELSE TargetLoops(TargetIteration(targets, Head(keys), raising, t),
                       Tail(keys), raising, t)

InitFirstRun ==
    /\ now = 0
    /\ runs = 0
    /\ QueueVarsInit
    /\ StatusVarsInit
    /\ t_key = "x_status"
    /\ IdVarsInit
    /\ RunVarsInit
    /\ LoadVarsInit
    /\ DeliverVarsInit
    /\ TrimVarsInit
    /\ VersionVarsInit
    /\ PageVarsInit
    /\ StoreVarsInit
    /\ TweetsVarsInit
    /\ SitemapVarsInit
    /\ DigestidVarsInit
    /\ ChecksVarsInit
    /\ OverlapVarsInit
    /\ FirstrunVarsInit

\* run() from load_state (line 266) to save_state (line 677): first_run is
\* taken from the loaded map (line 270), the loops fill the map, a first run
\* hands over the bootstrap alert alone (lines 606-618).
FirstRunRun ==
    /\ runs < MaxFirstRuns
    /\ runs' = runs + 1
    /\ \E d \in FirstRunDeltas, raising \in RaisingSets :
         /\ now' = now + d
         /\ k_targets' = TargetLoops(k_targets, LoopTargets, raising, now + d)
         /\ k_new_alerts' = NewAlerts(DOMAIN k_targets = {}, << >>, now + d)
    /\ k_first_run' = (DOMAIN k_targets = {})
    /\ h_k_bootstraps' = h_k_bootstraps + (IF DOMAIN k_targets = {} THEN 1 ELSE 0)
    /\ UNCHANGED other_than_firstrun

NextFirstRun == FirstRunRun

SpecFirstRun == InitFirstRun /\ [][NextFirstRun]_vars

\* C40: once a run has returned, the persisted targets map holds a record
\* for each of the eight targets, whether its check returned, raised or was
\* not due; so the first run is the only one taken for a first run and the
\* only one that generates the bootstrap alert.
C40_TargetsNeverEmpty ==
    runs >= 1 =>
      /\ DOMAIN k_targets = TargetKeys
      /\ k_first_run <=> runs = 1
      /\ h_k_bootstraps = 1
      /\ (\E i \in DOMAIN k_new_alerts : k_new_alerts[i].source = "bootstrap") <=> runs = 1

\* A later run in which no target was due, after a first run in which the
\* check of every target raised.
C40_Witness ==
    /\ runs = 2
    /\ ~k_first_run
    /\ k_new_alerts = << >>
    /\ \A key \in TargetKeys :
         /\ key \in DOMAIN k_targets
         /\ Get(k_targets[key], "consecutive_failures", 0) = 1
         /\ Get(k_targets[key], "last_checked", << >>) # << now >>

---------------------------------------------------------------------------
(* SpecOverlap: two runs of run() on the same state file and the same      *)
(* pending-alerts file, started by a scheduler that does not wait for the  *)
(* first to return. run() takes no lock: a run loads both files (lines     *)
(* 266-267), delivers, and replaces the state file (677) and the pending   *)
(* file (678), and the steps of the two runs interleave in any order.      *)

OverlapRuns == {"first", "second"}

\* Seconds from one load to the next.
OverlapDeltas == {20, 120}

\* An alert a run before these two generated at time 0 and failed to deliver.
QueuedBefore == PendingAlert(AlertPayload("x_status", "unreachable", 0), 1, 0, Minutes(1))

\* The alerts the checks of a run generate.
OverlapGenerated(t) == { << >>, << AlertPayload("x_status", "unreachable", t) >> }

\* The other of the two runs.
OtherRun(p) == CHOOSE q \in OverlapRuns : q # p

InitOverlap ==
    /\ now = 0
    /\ runs = 0
    /\ QueueVarsInit
    /\ StatusVarsInit
    /\ t_key = "x_status"
    /\ IdVarsInit
    /\ RunVarsInit
    /\ LoadVarsInit
    /\ DeliverVarsInit
    /\ TrimVarsInit
    /\ VersionVarsInit
    /\ PageVarsInit
    /\ StoreVarsInit
    /\ TweetsVarsInit
    /\ SitemapVarsInit
    /\ DigestidVarsInit
    /\ FirstrunVarsInit
    /\ ChecksVarsInit
    /\ r_sent = << >>
    /\ r_pending \in { << >>, << QueuedBefore >> }
    /\ r_pc = [p \in OverlapRuns |-> "idle"]
    /\ r_now = [p \in OverlapRuns |-> 0]
    /\ r_loaded = [p \in OverlapRuns |-> [sent |-> << >>, pending |-> << >>]]
    /\ r_result = [p \in OverlapRuns |->
                     [sent_alert_ids |-> << >>, remaining_pending |-> << >>, calls |-> << >>]]
    /\ h_r_overlap = FALSE
    /\ h_r_saves = << >>

\* run(), lines 266-269: the run loads both files and takes now.
OverlapLoad(p) ==
    /\ r_pc[p] = "idle"
    /\ \E d \in OverlapDeltas :
         /\ now' = now + d
         /\ r_now' = [r_now EXCEPT ![p] = now + d]
    /\ r_loaded' = [r_loaded EXCEPT ![p] = [sent |-> r_sent, pending |-> r_pending]]
    /\ r_pc' = [r_pc EXCEPT ![p] = "loaded"]
    /\ h_r_overlap' = (h_r_overlap \/ r_pc[OtherRun(p)] \in {"loaded", "delivered"})
    /\ runs' = runs + 1
    /\ UNCHANGED <<r_sent, r_pending, r_result, h_r_saves>>
    /\ UNCHANGED other_than_overlap

\* run(), lines 629-672: the run's two delivery loops.
OverlapDeliver(p) ==
    /\ r_pc[p] = "loaded"
    /\ \E generated \in OverlapGenerated(r_now[p]), outcomes \in [1..2 -> BOOLEAN] :
         \E done \in { DeliveryLoops(retry_max_hours, r_loaded[p].sent, r_loaded[p].pending,
                                     generated, outcomes, r_now[p]) } :
           r_result' = [r_result EXCEPT ![p] =
                          [sent_alert_ids |-> done.sent_alert_ids,
                           remaining_pending |-> done.remaining_pending,
                           calls |-> done.calls]]
    /\ r_pc' = [r_pc EXCEPT ![p] = "delivered"]
    /\ UNCHANGED <<now, runs, r_sent, r_pending, r_now, r_loaded, h_r_overlap, h_r_saves>>
    /\ UNCHANGED other_than_overlap

\* run(), lines 674-677: the state file is replaced.
OverlapSaveState(p) ==
    /\ r_pc[p] = "delivered"
    /\ r_sent' = trim_sent_ids(r_result[p].sent_alert_ids)
    /\ r_pc' = [r_pc EXCEPT ![p] = "state_saved"]
    /\ h_r_saves' = Append(h_r_saves, << p, "state" >>)
    /\ UNCHANGED <<now, runs, r_pending, r_now, r_loaded, r_result, h_r_overlap>>
    /\ UNCHANGED other_than_overlap

\* run(), lines 678-680: the pending-alerts file is replaced, run() returns.
OverlapSavePending(p) ==
    /\ r_pc[p] = "state_saved"
    /\ r_pending' = r_result[p].remaining_pending
    /\ r_pc' = [r_pc EXCEPT ![p] = "done"]
    /\ h_r_saves' = Append(h_r_saves, << p, "pending" >>)
    /\ UNCHANGED <<now, runs, r_sent, r_now, r_loaded, r_result, h_r_overlap>>
    /\ UNCHANGED other_than_overlap

NextOverlap ==
    \/ \E p \in OverlapRuns : OverlapLoad(p)
    \/ \E p \in OverlapRuns : OverlapDeliver(p)
    \/ \E p \in OverlapRuns : OverlapSaveState(p)
    \/ \E p \in OverlapRuns : OverlapSavePending(p)

SpecOverlap == InitOverlap /\ [][NextOverlap]_vars

\* Both runs have returned, and each had loaded before the other saved.
BothReturnedOverlapped ==
    /\ \A p \in OverlapRuns : r_pc[p] = "done"
    /\ h_r_overlap

\* The run whose file replacement came last.
LastSaver == h_r_saves[Len(h_r_saves)][1]

CalledIds(p) == { r_result[p].calls[i].alert_id : i \in DOMAIN r_result[p].calls }

\* C37: when two runs overlapped and both have returned, the state file and
\* the pending-alerts file are the two files the run that saved last wrote.
C37_LastSaverWins ==
    BothReturnedOverlapped =>
      /\ r_sent = trim_sent_ids(r_result[LastSaver].sent_alert_ids)
      /\ r_pending = r_result[LastSaver].remaining_pending

\* Each file is the one written by the run that replaced that file last.
C37_EachFileLastWriter ==
    BothReturnedOverlapped =>
      \E i, j \in DOMAIN h_r_saves :
        /\ h_r_saves[i][2] = "state"
        /\ \A k \in DOMAIN h_r_saves : h_r_saves[k][2] = "state" => k <= i
        /\ r_sent = trim_sent_ids(r_result[h_r_saves[i][1]].sent_alert_ids)
        /\ h_r_saves[j][2] = "pending"
        /\ \A k \in DOMAIN h_r_saves : h_r_saves[k][2] = "pending" => k <= j
        /\ r_pending = r_result[h_r_saves[j][1]].remaining_pending

\* The queue item that was due in both runs was delivered by both, and the
\* id the other run recorded as sent is not in the state file.
C37_DeliveredTwice ==
    /\ BothReturnedOverlapped
    /\ \E id \in CalledIds("first") \cap CalledIds("second") :
         /\ \A p \in OverlapRuns :
              \E i \in DOMAIN r_result[p].calls :
                /\ r_result[p].calls[i].alert_id = id
                /\ r_result[p].calls[i].from = "queue"
                /\ r_result[p].calls[i].sent
    /\ \E id \in Range(r_result[OtherRun(LastSaver)].sent_alert_ids) :
         id \notin Range(r_sent)

====
